---------------------------- MODULE Spec2Model ----------------------------
(***************************************************************************)
(* Verification model of the cross-exchange trading engine.                *)
(*                                                                         *)
(* Part I   Strategy::EventQueue / Strategy::EventProcessor                *)
(*          (src/src/strategy.hpp): the multi-producer, single-consumer    *)
(*          event loop.  Every critical section of mutex_ is short and     *)
(*          never blocks while holding the lock, so each one is a single   *)
(*          atomic action; the unsynchronised read of the atomic running_  *)
(*          in process_events is an action of its own.                     *)
(* Part II  ByBitOrderManager + ByBitFills / OkxOrderManager (src/oms):    *)
(*          order map, request-id map, retention queues, reject tables.    *)
(*          The venue is chosen in the initial state.  Each operation and  *)
(*          each frame handler is one atomic action, labelled with the     *)
(*          thread that runs it: the model follows the schedules in which  *)
(*          the handlers do not overlap.  Order handlers are shared_ptr    *)
(*          targets, kept in the sequence handlers and named by index, so  *)
(*          the two maps can hold the same handler.                        *)
(* Part III ByBitPositionManager / OkxPositionManager with their           *)
(*          reconciliation managers (src/oms): the reconciliation thread   *)
(*          against update_position_by_fillsz on the fills thread.  The    *)
(*          loop releases m_mutex before it loads m_currentPosition, so    *)
(*          the load, the query and the store are three actions.           *)
(* Part IV  Hedger (src/src/Hedger.h) over the hedge venue's order manager *)
(*          and the two position managers.  hedge() reads the positions    *)
(*          and then the order map, each under its own lock, while the     *)
(*          order manager's thread handles frames: the two reads are two   *)
(*          actions.  Quantities are whole lots.                           *)
(* Part V   One websocket channel (ByBitOrderRouter, OkxOrderRouter,       *)
(*          ByBitFills, or a market-data connector of src/infra): its      *)
(*          connections, the close/fail handling on the channel's thread,  *)
(*          the heartbeat on the timer thread and stop() on the main       *)
(*          thread.                                                        *)
(* Part VI  Signal::handleStrategy (src/src/Signal.h) on the main thread:  *)
(*          the wait for is_trading_ready(), the signal pipe, and the      *)
(*          strategy's handlers of PositionRecon and                       *)
(*          WebSocketDisconnected events on the processor thread.          *)
(* Part VII TargetOrderManager::refresh_target_orders with the two price   *)
(*          shifters (src/src).  Prices are whole numbers of half ticks,   *)
(*          so that rounding to a tick does something.                     *)
(* Part VIII PriceLevelArray of src/infra/book.hpp: findIndex, insert,     *)
(*          eraseAt and erase over one side of a book.                     *)
(* Part IX  TokenBucketRateLimiter::try_consume with its CooldownTimer     *)
(*          (src/src), called at non-decreasing times.                     *)
(* Part X   The book warm-up of the three market-data connectors           *)
(*          (src/infra): onOpen, onMessage and onClose of one connector.   *)
(***************************************************************************)
EXTENDS Naturals, Integers, Sequences, FiniteSets, TLC

VARIABLES
    \* ---- Part I: event queue ----
    queue_,        \* EventQueue::queue_ : sequence of events
    running_,      \* EventQueue::running_
    cpc,           \* m_currentPosition of the consumer thread (process_events)
    cur,           \* the event the consumer popped and is handling
    pcount,        \* producer -> number of events it has submitted
    spc,           \* m_currentPosition of the thread calling EventProcessor::stop()
    appended,      \* history: ids in the order queue_.push appended them
    handled,       \* history: events in the order handle_event was entered
    queuedAtStop,  \* history: ids that were in queue_ when running_ became false
    \* ---- Part II: one venue's order manager ----
    venue,         \* "bybit" (ByBitOrderManager + ByBitFills) or "okx" (OkxOrderManager)
    m_wsState,     \* order router's m_wsState (isWebSocketReady)
    clock,         \* last value read from helper::get_current_timestamp_ns
    m_reqId,       \* ByBitOrderManager::m_reqId
    handlers,      \* the OrderHandler objects (shared_ptr targets), by allocation index
    orderMap,      \* client-order-id -> handler index
    reqId_to_orderHandler,  \* ByBitOrderManager's request-id -> handler index
    cancelQueue,
    filledQueue,
    rejectedQueue,
    m_currentPosition,  \* the position manager's m_currentPosition
    nOps,          \* number of placeOrder/cancelOrder/modifyOrder calls made
    nFrames,       \* number of inbound frames handled
    last,          \* history: what the last call or frame was and what it returned
    frameSeen,     \* history: the state and cumulative filled size of the last order frame
    limits,        \* the numbers of calls and of inbound frames the specification follows
    atVenue,       \* history: the orders working at the venue, and the request ids of the amends sent
    \* ---- Part III: one venue's position manager ----
    exchangePosition,    \* the position the venue holds (what fetch_position_impl reports)
    fillFrames,          \* fills executed at the venue whose frame is still in flight
    rpc,                 \* position of the reconciliation thread in reconciliationLoop
    internalPosition,    \* the argument of reconcile(): the position the loop loaded
    result,              \* the tuple reconcile() returned
    gap,                 \* ReconciliationManager::gap
    m_mismatchCounter,
    m_reconTryCounter,
    m_reconStatus,
    nCycles,             \* number of reconciliation cycles started
    nFills,              \* number of fills executed at the venue
    reconciledPosition,  \* history: the position the last successful reconciliation stored
    observedFills,       \* history: signed sum of the fills observed since its query
    observedSinceQuery,  \* history: signed sum of the fills observed since the last query
    m_running,               \* PositionManager::m_running
    m_nextReconTimeReached,  \* whether system_clock::now() >= m_nextReconTime
    m_reconPromise,          \* the future m_reconPromise belongs to, 0 when it has no value
    futures,                 \* the futures recon() returned, in the order of the calls
    reconCallbacks,          \* history: the statuses m_reconCallback was called with
    nRecons,                 \* number of recon() calls made
    sameGapRun,       \* history: length of the current run of identical gaps of at least a tick
    lastObservedGap,  \* history: the gap of the last successful query, -1 before the first
    failsInRow,       \* history: number of failed queries since the last successful one
    unresolvedRun,    \* history: successful queries in a row with a gap neither confirmed nor refuted
    intervals,        \* m_normalReconInterval, m_retryIntervalOnFailure, m_retryIntervalOnMismatch
    mpos,             \* position of the owning thread in stop() or the destructor
    joined,           \* whether m_reconThread was joined
    nStops,           \* number of stop() calls made
    \* ---- Part IV: the hedger ----
    quotePosition,   \* quote_position_manager_.get_position(), in lots
    hedgePosition,   \* hedge_position_manager_.get_position(), in lots
    hedgeOrders,     \* the hedge order manager's order map: the handlers in order of placement
    venueOpen,       \* per hedge order, the quantity the hedge venue has not executed yet
    hedgeFrames,     \* orders-channel frames the hedge venue pushed, not handled yet
    hpc,             \* position of the thread that called hedge()
    total_exposure,  \* hedge(): the local total_exposure
    nHedgeCalls,     \* number of hedge() calls started
    nQuoteFills,     \* number of quote fills
    lastHedge,       \* history: what the last hedge() call read and submitted
    \* ---- Part V: one websocket channel ----
    kind,               \* which channel: "router", "fills" or "md"
    reconnect_attempt,
    conn,               \* the connections the channel made, in order: state, maker, made after stop()
    routing_hdl,        \* routing_hdl / current_hdl: the connection opened last (0: none)
    ioStopped,          \* the endpoint's io_service is stopped
    cleaning_up,        \* WebSocketClient::cleaning_up
    stopped,            \* stop() has been called
    started,            \* start() / setupRoutingConnection() has been called
    hpos,               \* position of the channel's thread inside a close/fail handler
    tpos,               \* position of the timer thread inside send_heartbeat
    emitted,            \* history: the reached_retry_limit flags passed to the status callback
    nCloses,            \* number of close/fail events handled
    nBeats,             \* number of heartbeats
    \* ---- Part VI: the process lifecycle ----
    spos,                    \* position of the main thread in Signal::handleStrategy
    running,                 \* Signal::running
    pipe,                    \* number of bytes in signal_pipe
    eintr,                   \* a signal handler interrupted the epoll_wait in progress
    is_trading_ready,        \* Signal::is_trading_ready
    is_trading_initialized,  \* Signal::is_trading_initialized
    books,                   \* the market-data connectors whose isBookReady() is true
    warmup,                  \* the position managers whose isPosReconWarmedUp() is true
    elapsed,                 \* seconds since handleStrategy was entered
    tradingStarted,          \* history: initialize_trading() and start_trading() were called
    readyAtStart,            \* history: what the last is_trading_ready() call had returned then
    submitted,               \* the strategy events submitted and not handled yet
    handledEvents,           \* history: the events handle_event was called with
    cancelAllCalls,          \* history: the venues whose cancelAll() was called
    nSignals,                \* number of signals delivered
    nSubmitted,              \* number of strategy events submitted
    \* ---- Part VII: the target-order ladder ----
    config_,                 \* TargetOrderManager::config_ and order_configs_
    is_dirty_,               \* is_ask_dirty_ / is_bid_dirty_, by side
    prices_,                 \* TargetOrderManager::prices_
    target_orders_,          \* ask_target_orders_ / bid_target_orders_, by side
    lastRefresh,             \* history: the side and the touch of the last refresh that ran
    \* ---- Part VIII: one side of a book ----
    levels,                  \* PriceLevelArray::levels[0 .. size - 1]
    isDescending,            \* PriceLevelArray::isDescending
    lastBookOp,              \* history: the last call on the array and what it found
    \* ---- Part IX: the token bucket ----
    limiter,                 \* max_tokens_, time_window_ and cooldown_duration_
    tokens_,                 \* TokenBucketRateLimiter::tokens_
    last_refill_time_,       \* TokenBucketRateLimiter::last_refill_time_
    cooldown_end_time_,      \* CooldownTimer::cooldown_end_time_ (an optional)
    callTime,                \* the time point of the latest call
    consumed,                \* what the latest try_consume returned
    \* ---- Part X: a market-data connector ----
    connector,               \* which connector: "binance", "okx" or "bybit"
    m_bookWarmedUp,          \* what isBookReady() returns
    cnt,                     \* the connector's frame counter
    mdOpen,                  \* the channel is open
    framesOnConnection,      \* history: frames received since the channel was opened
    nMdFrames,               \* history: frames received in all
    nMdCloses                \* history: closes of the channel

eqVars == <<queue_, running_, cpc, cur, pcount, spc, appended, handled, queuedAtStop>>

omVars == <<venue, m_wsState, clock, m_reqId, handlers, orderMap, reqId_to_orderHandler, cancelQueue,
            filledQueue, rejectedQueue, m_currentPosition, nOps, nFrames, last, frameSeen, limits, atVenue>>

\* the order manager's variables other than the position
omRest == <<venue, m_wsState, clock, m_reqId, handlers, orderMap, reqId_to_orderHandler, cancelQueue,
            filledQueue, rejectedQueue, nOps, nFrames, last, frameSeen, limits, atVenue>>

\* the position manager's thread, trigger and callback state
pmSync == <<m_running, m_nextReconTimeReached, m_reconPromise, futures, reconCallbacks, nRecons>>

\* the history of the queries' outcomes
pmHist == <<sameGapRun, lastObservedGap, failsInRow, unresolvedRun>>

\* the manager's configured intervals and its owner's calls of stop() and the destructor
pmCtl == <<intervals, mpos, joined, nStops>>

pmVars == <<exchangePosition, fillFrames, rpc, internalPosition, result, gap, m_mismatchCounter,
            m_reconTryCounter, m_reconStatus, nCycles, nFills, reconciledPosition, observedFills,
            observedSinceQuery, pmSync, pmHist, pmCtl>>

hgVars == <<quotePosition, hedgePosition, hedgeOrders, venueOpen, hedgeFrames, hpc, total_exposure,
            nHedgeCalls, nQuoteFills, lastHedge>>

wsVars == <<kind, reconnect_attempt, conn, routing_hdl, ioStopped, cleaning_up, stopped, started,
            hpos, tpos, emitted, nCloses, nBeats>>

\* the parts after Part II
stVars == <<spos, running, pipe, eintr, is_trading_ready, is_trading_initialized, books, warmup,
            elapsed, tradingStarted, readyAtStart, submitted, handledEvents, cancelAllCalls,
            nSignals, nSubmitted>>

toVars == <<config_, is_dirty_, prices_, target_orders_, lastRefresh>>

\* the parts that are classes of their own
bkVars == <<levels, isDescending, lastBookOp>>

tbVars == <<limiter, tokens_, last_refill_time_, cooldown_end_time_, callTime, consumed>>

mdVars == <<connector, m_bookWarmedUp, cnt, mdOpen, framesOnConnection, nMdFrames, nMdCloses>>

libVars == <<toVars, bkVars, tbVars, mdVars>>

\* the variables of Parts I to VI
coreVars == <<eqVars, omVars, pmVars, hgVars, wsVars, stVars>>

restVars == <<pmVars, hgVars, wsVars, stVars, libVars>>

vars == <<eqVars, omVars, restVars>>

-----------------------------------------------------------------------------
(* Bounds *)

MaxSubmit == 2

MaxOps == 2

MaxFrames == 2

MaxClock == 2

MaxFill == 1

\* markets.*.number_of_orders_to_track (m_trackOrderCnt), a configuration value
NumberOfOrdersToTrack == 1

NoEvent == [id |-> <<"none", 0>>]

-----------------------------------------------------------------------------
(* Part I: events *)

EventType ==
    {"StartTrading", "StopTrading", "BybitMarketUpdate", "OkxMarketUpdate",
     "BinanceMarketUpdate", "BybitOrderUpdate", "OkxOrderUpdate", "PositionRecon",
     "PnlRecon", "WebSocketDisconnected"}

\* The alternatives of the std::variant EventData; a default-constructed
\* EventData ({}) holds the first one, StartTradingEventData.
EventData ==
    {"StartTradingEventData", "StopTradingEventData", "MarketUpdateEventData",
     "OrderUpdateEventData", "PositionReconEventData", "PnlReconEventData",
     "WsDisconnectedEventData"}

\* The alternative handle_event reads with std::get for each tag ("" when the
\* case reads none; PnlRecon has no case at all).
RequiredAlternative(type) ==
    CASE type = "StopTrading" -> "StopTradingEventData"
      [] type \in {"BybitOrderUpdate", "OkxOrderUpdate"} -> "OrderUpdateEventData"
      [] type = "PositionRecon" -> "PositionReconEventData"
      [] type = "WebSocketDisconnected" -> "WsDisconnectedEventData"
      [] OTHER -> ""

\* handle_event: std::get<T>(event.data) throws std::bad_variant_access when the
\* variant holds another alternative; the stub handlers themselves are empty.
HandlerThrows(e) ==
    /\ RequiredAlternative(e.type) # ""
    /\ e.data # RequiredAlternative(e.type)

\* The events the producers of the model submit.  "main" stands for a thread
\* that builds Event{tag, {}} as start_trading does (the data is then the default
\* alternative); "conn" for a connector thread going through the callback adapter.
Producers == {"main", "conn"}

SubmittedEvents(p) ==
    IF p = "main"
    THEN { [type |-> "StartTrading", data |-> "StartTradingEventData"],
           [type |-> "StopTrading", data |-> "StartTradingEventData"] }
    ELSE { [type |-> "BybitOrderUpdate", data |-> "OrderUpdateEventData"],
           [type |-> "WebSocketDisconnected", data |-> "WsDisconnectedEventData"] }

\* std::queue operations used by push and pop
PushFrontMutant(q, e) == <<e>> \o q

PushBack(q, e) == Append(q, e)

Front(q) == Head(q)

PopFront(q) == Tail(q)

LoopUntilPopFailsMutant == TRUE

\* while(event_queue_.is_running())
LoopCondition == running_

Aborted == cpc = "terminated"

-----------------------------------------------------------------------------
(* Part I: actions *)

InitEQ ==
    /\ queue_ = <<>>
    /\ running_ = TRUE
    /\ cpc = "unstarted"
    /\ cur = NoEvent
    /\ pcount = [p \in Producers |-> 0]
    /\ spc = "idle"
    /\ appended = <<>>
    /\ handled = <<>>
    /\ queuedAtStop = {}

\* EventProcessor::start
Start ==
    /\ ~Aborted
    /\ cpc = "unstarted"
    /\ cpc' = "check"
    /\ UNCHANGED <<queue_, running_, cur, pcount, spc, appended, handled, queuedAtStop>>
    /\ UNCHANGED <<omVars, restVars>>

\* EventProcessor::submit -> EventQueue::push: the locked block, then
\* condition_.notify_one() (a waiting consumer is the blocked guard of PopTake)
Push(p) ==
    /\ ~Aborted
    /\ pcount[p] < MaxSubmit
    /\ \E ev \in SubmittedEvents(p) :
         LET e == [id |-> <<p, pcount[p] + 1>>, type |-> ev.type, data |-> ev.data,
                   afterStop |-> ~running_, poppedAfterStop |-> FALSE]
         IN /\ queue_' = PushBack(queue_, e)
            /\ appended' = Append(appended, e.id)
    /\ pcount' = [pcount EXCEPT ![p] = @ + 1]
    /\ UNCHANGED <<running_, cpc, cur, spc, handled, queuedAtStop>>
    /\ UNCHANGED <<omVars, restVars>>

\* process_events: the loop condition
LoopCheck ==
    /\ ~Aborted
    /\ cpc = "check"
    /\ cpc' = IF LoopCondition THEN "pop" ELSE "done"
    /\ UNCHANGED <<queue_, running_, cur, pcount, spc, appended, handled, queuedAtStop>>
    /\ UNCHANGED <<omVars, restVars>>

\* EventQueue::pop when the wait predicate holds with a non-empty queue
PopTake ==
    /\ ~Aborted
    /\ cpc = "pop"
    /\ queue_ # <<>>
    /\ cur' = [Front(queue_) EXCEPT !.poppedAfterStop = ~running_]
    /\ queue_' = PopFront(queue_)
    /\ cpc' = "handle"
    /\ UNCHANGED <<running_, pcount, spc, appended, handled, queuedAtStop>>
    /\ UNCHANGED <<omVars, restVars>>

\* EventQueue::pop returning false: !running_ && queue_.empty()
PopReturnFalse ==
    /\ ~Aborted
    /\ cpc = "pop"
    /\ queue_ = <<>>
    /\ ~running_
    /\ cpc' = "check"
    /\ UNCHANGED <<queue_, running_, cur, pcount, spc, appended, handled, queuedAtStop>>
    /\ UNCHANGED <<omVars, restVars>>

\* EventProcessor::handle_event; an exception leaves process_events, the thread
\* function, and std::terminate ends the process
HandleEvent ==
    /\ ~Aborted
    /\ cpc = "handle"
    /\ handled' = Append(handled, cur)
    /\ cur' = NoEvent
    /\ cpc' = IF HandlerThrows(cur) THEN "terminated" ELSE "check"
    /\ UNCHANGED <<queue_, running_, pcount, spc, appended, queuedAtStop>>
    /\ UNCHANGED <<omVars, restVars>>

\* EventQueue::stop: the locked block, then condition_.notify_all()
StopSetFlag ==
    /\ ~Aborted
    /\ spc = "idle"
    /\ running_' = FALSE
    /\ queuedAtStop' = {queue_[i].id : i \in 1..Len(queue_)}
    /\ spc' = "join"
    /\ UNCHANGED <<queue_, cpc, cur, pcount, appended, handled>>
    /\ UNCHANGED <<omVars, restVars>>

\* EventProcessor::stop, processor_thread_.join() (skipped when not joinable)
StopJoin ==
    /\ ~Aborted
    /\ spc = "join"
    /\ cpc \in {"unstarted", "done"}
    /\ spc' = "done"
    /\ UNCHANGED <<queue_, running_, cpc, cur, pcount, appended, handled, queuedAtStop>>
    /\ UNCHANGED <<omVars, restVars>>

NextEQ ==
    \/ Start
    \/ \E p \in Producers : Push(p)
    \/ LoopCheck
    \/ PopTake
    \/ PopReturnFalse
    \/ HandleEvent
    \/ StopSetFlag
    \/ StopJoin

-----------------------------------------------------------------------------
(* Part II: order handlers, maps and queues *)

\* OrderHandler::OrderHandler
NewHandler ==
    [status |-> "INITIAL", reason |-> "NONE", live |-> FALSE, clOrdId |-> 0,
     side |-> FALSE, cumFilled |-> 0]

EmptyMap == [k \in {} |-> 0]

\* std::unordered_map::emplace: no effect when the key is present
Emplace(m, k, v) ==
    IF k \in DOMAIN m THEN m
    ELSE [x \in DOMAIN m \cup {k} |-> IF x = k THEN v ELSE m[x]]

\* std::unordered_map::erase
Erase(m, k) == [x \in DOMAIN m \ {k} |-> m[x]]

\* reqId_to_orderHandler.erase(iterator) on an ack or a reject
EraseRequest(m, k) == Erase(m, k)

\* a maintainOrderLimit that retains no completed order
TrimQueueKeepNoneMutant(q, m) ==
    [q |-> <<>>, m |-> [x \in DOMAIN m \ {q[i] : i \in 1..Len(q)} |-> m[x]]]

\* one while loop of maintainOrderLimit: pop the head and erase it from the
\* order map until the queue holds at most m_trackOrderCnt ids
RECURSIVE TrimQueue(_, _)
TrimQueue(q, m) ==
    IF Len(q) > NumberOfOrdersToTrack
    THEN TrimQueue(Tail(q), Erase(m, Head(q)))
    ELSE [q |-> q, m |-> m]

\* ByBitOrderManager::maintainOrderLimit trims the rejected queue only
MaintainRejected(cq, rq, fq, m) ==
    LET r == TrimQueue(rq, m)
    IN [cq |-> cq, rq |-> r.q, fq |-> fq, m |-> r.m]

MaintainRejectedOnlyMutant(cq, rq, fq, m) ==
    [cq |-> cq, rq |-> TrimQueue(rq, m).q, fq |-> fq, m |-> TrimQueue(rq, m).m]

\* ByBitFills::maintainOrderLimit and OkxOrderManager::maintainOrderLimit trim
\* the cancel, rejected and filled queues, in this order
MaintainAll(cq, rq, fq, m) ==
    LET c == TrimQueue(cq, m)
        r == TrimQueue(rq, c.m)
        f == TrimQueue(fq, r.m)
    IN [cq |-> c.q, rq |-> r.q, fq |-> f.q, m |-> f.m]

\* okx::DOGE_USDT_SWAP::dogePerpCtVal * dogePerpCtMul, the factor of the
\* instrument the OKX managers of the model are configured with
OkxCtFactor == 1000

\* update_position_by_fillsz -> updateCurrentPosition
UpdatePosition(pos, fillSz, buy) ==
    LET sz == IF venue = "okx" THEN fillSz * OkxCtFactor ELSE fillSz
    IN IF buy THEN pos + sz ELSE pos - sz

\* ---- reject tables ----

\* ByBitOrderManager::getUpdatedOrderStatus: the reason a nonzero retCode sets;
\* retCode 10001 with a retMsg none of its three branches names assigns nothing.
BybitRejectReason(retCode, retMsg, old) ==
    CASE retCode = 10001 /\ retMsg = "Qty invalid" -> "ORDER_SIZE_NOT_MULTIPLE_OF_LOT_SIZE"
      [] retCode = 10001 /\ retMsg = "order not modified" ->
             "ORDER_NOT_MODIFIED_NO_CHANGE_IN_PRICE_QTY"
      [] retCode = 10001 /\ retMsg = "Illegal category" -> "INSTRUMENT_BLOCKED"
      [] retCode = 10001 -> old
      [] retCode \in {110001, 110019} -> "ORDER_DOES_NOT_EXIST_ON_EXCH_ORDERBOOK"
      [] retCode \in {110008, 110010} -> "ORDER_HAS_BEEN_FILLED_OR_CANCELLED"
      [] retCode \in {110003, 110094} -> "ORDER_PRICE_NOT_IN_RANGE"
      [] retCode \in {110004, 110012, 110052, 110007} -> "INSUFFICIENT_FUNDS"
      [] retCode = 110020 -> "EXCEEDED_NUMBER_OF_LIVE_ORDERS"
      [] retCode = 110079 -> "ORDER_BEING_PROCESSED_CANNOT_OPERATE_ON_IT"
      [] retCode = 10006 -> "THROTTLE_HIT"
      [] retCode \in {10016, 10019, 10429} -> "EXCHANGE_BUSY"
      [] retCode = 33004 -> "API_KEY_EXPIRED"
      [] retCode = 10003 -> "API_KEY_DOES_NOT_MATCH_ENV"
      [] OTHER -> "UNKNOWN_ERROR"

\* ... and whether the branch pushes the id onto rejectedQueue
BybitRejectPushes(retCode, retMsg, live) ==
    CASE retCode = 10001 /\ retMsg \in {"Qty invalid", "order not modified", "Illegal category"} ->
             ~live
      [] retCode = 10001 -> FALSE
      [] retCode \in {110001, 110019, 110008, 110010} -> TRUE
      [] OTHER -> ~live

\* OkxOrderManager::getUpdatedOrderStatus, code "1": the reason per sCode
OkxRejectReason(sCode) ==
    CASE sCode \in {"50018", "51008"} -> "INSUFFICIENT_FUNDS"
      [] sCode = "51503" -> "ORDER_DOES_NOT_EXIST_ON_EXCH_ORDERBOOK"
      [] sCode = "50011" -> "THROTTLE_HIT"
      [] sCode = "51006" -> "ORDER_PRICE_NOT_IN_RANGE"
      [] sCode = "51400" -> "ORDER_HAS_BEEN_FILLED_OR_CANCELLED"
      [] sCode = "51121" -> "ORDER_SIZE_NOT_MULTIPLE_OF_LOT_SIZE"
      [] sCode = "50001" -> "SERVICE_TEMPORARILY_UNAVAILABLE"
      [] sCode = "50005" -> "API_OFFLINE_OR_UNAVAILABLE"
      [] sCode = "50007" -> "ACCOUNT_BLOCKED"
      [] sCode = "50013" -> "EXCHANGE_BUSY"
      [] sCode = "50033" -> "INSTRUMENT_BLOCKED"
      [] sCode = "50038" -> "FEATURE_UNAVAILABLE_IN_DEMO"
      [] sCode = "50052" -> "CANNOT_TRADE_ON_CHOSEN_CRYPTO_DUE_TO_LOCAL_NEWS_AND_REGULATIONS"
      [] sCode = "50101" -> "API_KEY_DOES_NOT_MATCH_ENV"
      [] OTHER -> "UNKNOWN_ERROR"

OkxRejectPushes(sCode, live) ==
    IF sCode \in {"51503", "51400"} THEN TRUE ELSE ~live

\* ByBitFills::onOrderUpdateMessage, topic order with rejectReason # EC_NoError
FillsRejectReason(reject) ==
    CASE reject = "EC_InvalidSymbolStatus" -> "INVALID_INSTRUMENT"
      [] reject = "EC_OrderNotExist" -> "ORDER_DOES_NOT_EXIST_ON_EXCH_ORDERBOOK"
      [] reject = "EC_PostOnlyWillTakeLiquidity" -> "POST_ONLY_WILL_TAKE_LIQUIDITY"
      [] reject = "EC_PerCancelRequest" -> "NONE"
      [] reject = "EC_OrigClOrdIDDoesNotExist" -> "ORDER_DOES_NOT_EXIST_ON_EXCH_ORDERBOOK"
      [] OTHER -> "UNKNOWN_ERROR"

\* ---- inputs of the model ----

\* client-order-ids: the values the clock can take
Ids == 1..MaxClock

\* (retCode, retMsg) of the Bybit responses the model delivers
BybitResponses ==
    { <<0, "OK">>, <<10001, "Qty invalid">>, <<10001, "params error">>,
      <<110001, "order not exists">>, <<110003, "price out of range">>, <<10002, "">> }

\* (orderStatus, rejectReason) of the Bybit order frames the model delivers
BybitOrderFrames ==
    { <<"New", "EC_NoError">>, <<"PartiallyFilled", "EC_NoError">>,
      <<"Filled", "EC_NoError">>, <<"Cancelled", "EC_NoError">>,
      <<"Cancelled", "EC_PerCancelRequest">>, <<"Rejected", "EC_PostOnlyWillTakeLiquidity">>,
      <<"Rejected", "EC_Other">> }

OkxOrderStates == {"live", "canceled", "partially_filled", "filled"}

\* The thread a call or frame handler runs on.  The frame handlers run on the
\* websocket threads Strategy::start_all_ws starts; the three operations have no
\* caller under src and are taken to run where the design puts them, in the
\* dispatcher's handlers.
ThreadOf(op) ==
    CASE op \in {"placeOrder", "cancelOrder", "modifyOrder"} -> "dispatcher"
      [] op = "response" ->
             IF venue = "bybit" THEN "bybit_order_manager" ELSE "okx_order_manager"
      [] op \in {"orderFrame", "executionFrame"} -> "bybit_fills"
      [] op = "channelFrame" -> "okx_order_manager"
      [] OTHER -> "none"

NoCallback == <<"none", "none">>

WsFailure == <<"REJECTED", "WS_FAILURE">>

NoCode == <<0, "">>

Snapshot(h) == <<h.status, h.reason>>

\* what the last call or frame handler was given and did: the operation, the
\* client-order-id and request-id it named, whether the websocket was ready,
\* whether a send was attempted and succeeded, the value returned, whether the
\* lookup found a handler, the reject code applied (NoCode when none was), and
\* the handler the order-status callback was invoked with
LastOf(op, id, req, ready, sent, sendOk, ret, known, code, cb) ==
    [op |-> op, thread |-> ThreadOf(op), id |-> id, req |-> req, ready |-> ready,
     sent |-> sent, sendOk |-> sendOk, ret |-> ret, known |-> known, code |-> code,
     cb |-> cb]

\* before the first order frame
NoFrame == [status |-> "", reject |-> "", acc |-> 0]

\* the limits of the specification of the order manager alone
DefaultLimits == [ops |-> MaxOps, frames |-> MaxFrames]

InitOMWith(lim) ==
    /\ limits = lim
    /\ atVenue = [working |-> {}, amendReqs |-> {}]
    /\ frameSeen = NoFrame
    /\ m_wsState = FALSE
    /\ clock = 1
    /\ m_reqId = 0
    /\ handlers = <<>>
    /\ orderMap = EmptyMap
    /\ reqId_to_orderHandler = EmptyMap
    /\ cancelQueue = <<>>
    /\ filledQueue = <<>>
    /\ rejectedQueue = <<>>
    /\ m_currentPosition = 0
    /\ nOps = 0
    /\ nFrames = 0
    /\ last = LastOf("none", 0, 0, FALSE, FALSE, FALSE, 0, FALSE, NoCode, NoCallback)

InitOMState == InitOMWith(DefaultLimits)

InitOM == venue \in {"bybit", "okx"} /\ InitOMState

\* the order router authenticated / subscribed: m_wsState = true
WsReady ==
    /\ ~m_wsState
    /\ m_wsState' = TRUE
    /\ UNCHANGED <<eqVars, restVars>>
    /\ UNCHANGED <<venue, limits, atVenue, frameSeen, clock, m_reqId, handlers, orderMap, reqId_to_orderHandler, cancelQueue,
                   filledQueue, rejectedQueue, m_currentPosition, nOps, nFrames, last>>

\* the order router's close / fail handler: m_wsState = false
WsClosed ==
    /\ m_wsState
    /\ m_wsState' = FALSE
    /\ UNCHANGED <<eqVars, restVars>>
    /\ UNCHANGED <<venue, limits, atVenue, frameSeen, clock, m_reqId, handlers, orderMap, reqId_to_orderHandler, cancelQueue,
                   filledQueue, rejectedQueue, m_currentPosition, nOps, nFrames, last>>

\* placeOrder(instrument, price, qty, buy); sendOk: the router's send does not
\* throw; t: the timestamp sendOrder reads for the client-order-id
PlaceOrder(buy, sendOk, t) ==
    /\ nOps < limits.ops
    /\ t \in clock..MaxClock
    /\ nOps' = nOps + 1
    /\ IF ~m_wsState
       THEN /\ last' = LastOf("placeOrder", 0, 0, FALSE, FALSE, FALSE, 0, FALSE, NoCode,
                              WsFailure)
            /\ UNCHANGED <<clock, m_reqId, handlers, orderMap, reqId_to_orderHandler>>
       ELSE LET req == IF venue = "bybit" THEN m_reqId + 1 ELSE m_reqId
                idx == Len(handlers) + 1
                h == IF sendOk
                     THEN [NewHandler EXCEPT !.clOrdId = t, !.status = "PENDING",
                                             !.side = buy]
                     ELSE [NewHandler EXCEPT !.status = "REJECTED",
                                             !.reason = "WS_FAILURE"]
                referenced == venue = "bybit" \/ (sendOk /\ t \notin DOMAIN orderMap)
            IN /\ clock' = t
               /\ m_reqId' = req
               /\ handlers' = IF referenced THEN Append(handlers, h) ELSE handlers
               /\ reqId_to_orderHandler' = IF venue = "bybit" THEN Emplace(reqId_to_orderHandler, req, idx) ELSE reqId_to_orderHandler
               /\ orderMap' = IF sendOk THEN Emplace(orderMap, t, idx) ELSE orderMap
               /\ last' = LastOf("placeOrder", 0, req, TRUE, TRUE, sendOk,
                                 IF sendOk THEN t ELSE 0, FALSE, NoCode,
                                 IF sendOk THEN NoCallback ELSE WsFailure)
    /\ atVenue' = IF m_wsState /\ sendOk THEN [atVenue EXCEPT !.working = @ \cup {t}]
                  ELSE atVenue
    /\ UNCHANGED <<eqVars, restVars>>
    /\ UNCHANGED <<venue, limits, frameSeen, m_wsState, cancelQueue, filledQueue, rejectedQueue, m_currentPosition,
                   nFrames>>

\* the body cancelOrder and modifyOrder share (modifyOrder also stores the new
\* price and quantity, which the model does not keep)
CancelOrModify(op, id, sendOk, t) ==
    /\ nOps < limits.ops
    /\ t \in clock..MaxClock
    /\ nOps' = nOps + 1
    /\ LET known == id \in DOMAIN orderMap
           idx == IF known THEN orderMap[id] ELSE Len(handlers) + 1
           hs0 == IF known THEN handlers ELSE Append(handlers, NewHandler)
           h0 == IF venue = "bybit" THEN [hs0[idx] EXCEPT !.clOrdId = id] ELSE hs0[idx]
           rejected == [h0 EXCEPT !.status = "REJECTED", !.reason = "WS_FAILURE"]
       IN /\ orderMap' = Emplace(orderMap, id, idx)
          /\ IF ~m_wsState
             THEN /\ handlers' = [hs0 EXCEPT ![idx] = rejected]
                  /\ last' = LastOf(op, id, 0, FALSE, FALSE, FALSE, id, known, NoCode,
                                    WsFailure)
                  /\ UNCHANGED <<clock, m_reqId, reqId_to_orderHandler>>
             ELSE LET req == IF venue = "bybit" THEN m_reqId + 1 ELSE m_reqId
                      ret == IF ~sendOk THEN 0 ELSE IF venue = "bybit" THEN id ELSE t
                  IN /\ handlers' = [hs0 EXCEPT ![idx] =
                                        IF sendOk THEN [h0 EXCEPT !.clOrdId = id]
                                        ELSE rejected]
                     /\ m_reqId' = req
                     /\ reqId_to_orderHandler' = IF venue = "bybit" THEN Emplace(reqId_to_orderHandler, req, idx)
                                  ELSE reqId_to_orderHandler
                     /\ clock' = IF venue = "okx" THEN t ELSE clock
                     /\ last' = LastOf(op, id, req, TRUE, TRUE, sendOk, ret, known, NoCode,
                                       IF sendOk THEN NoCallback ELSE WsFailure)
    /\ atVenue' = IF op = "modifyOrder" /\ venue = "bybit" /\ m_wsState /\ sendOk
                  THEN [atVenue EXCEPT !.amendReqs = @ \cup {m_reqId + 1}]
                  ELSE atVenue
    /\ UNCHANGED <<eqVars, restVars>>
    /\ UNCHANGED <<venue, limits, frameSeen, m_wsState, cancelQueue, filledQueue, rejectedQueue, m_currentPosition,
                   nFrames>>

CancelOrder(id, sendOk, t) == CancelOrModify("cancelOrder", id, sendOk, t)

ModifyOrder(id, sendOk, t) == CancelOrModify("modifyOrder", id, sendOk, t)

\* the order-map lookup of a frame handler: orderMap.find(id) # end()
KnownOrder(m, id) == id \in DOMAIN m

SynthesizeOrderMutant(m, id) == IF Len(handlers) > 0 THEN Emplace(m, id, 1) ELSE m

\* what a status or execution frame for an unknown id does to the order map:
\* a warning is logged and nothing else
OnUnknownOrder(m, id) == m

\* whether the order named by a rejected request is gone from the venue: the
\* rejection of a placement, and the codes saying that the order does not
\* exist or has been filled or cancelled; a rejected amend leaves the order
\* working
LeavesVenue(req, retCode, amends) ==
    req \notin amends \/ retCode \in {110001, 110019, 110008, 110010}

\* ByBitOrderManager::getUpdatedOrderStatus for a frame carrying reqId and
\* retCode (threads_.bybit_order_manager)
BybitResponse(req, resp) ==
    /\ venue = "bybit"
    /\ nFrames < limits.frames
    /\ nFrames' = nFrames + 1
    /\ LET found == req \in DOMAIN reqId_to_orderHandler
           retCode == resp[1]
           retMsg == resp[2]
       IN IF retCode = 0
          THEN /\ reqId_to_orderHandler' = IF found THEN EraseRequest(reqId_to_orderHandler, req) ELSE reqId_to_orderHandler
               /\ last' = LastOf("response", 0, req, FALSE, FALSE, FALSE, 0, found, NoCode,
                                 NoCallback)
               /\ UNCHANGED <<handlers, orderMap, rejectedQueue>>
          ELSE IF ~found
          THEN /\ last' = LastOf("response", 0, req, FALSE, FALSE, FALSE, 0, FALSE, NoCode,
                                 NoCallback)
               /\ UNCHANGED <<handlers, orderMap, reqId_to_orderHandler, rejectedQueue>>
          ELSE LET idx == reqId_to_orderHandler[req]
                   h == handlers[idx]
                   h1 == [h EXCEPT !.status = "REJECTED",
                                   !.reason = BybitRejectReason(retCode, retMsg, h.reason)]
                   pushes == BybitRejectPushes(retCode, retMsg, h.live)
                   mt == IF pushes
                         THEN MaintainRejected(cancelQueue, Append(rejectedQueue, h.clOrdId),
                                               filledQueue, orderMap)
                         ELSE [cq |-> cancelQueue, rq |-> rejectedQueue, fq |-> filledQueue,
                               m |-> orderMap]
               IN /\ handlers' = [handlers EXCEPT ![idx] = h1]
                  /\ reqId_to_orderHandler' = EraseRequest(reqId_to_orderHandler, req)
                  /\ rejectedQueue' = mt.rq
                  /\ orderMap' = mt.m
                  /\ last' = LastOf("response", h.clOrdId, req, FALSE, FALSE, FALSE, 0, TRUE,
                                    resp, Snapshot(h1))
    /\ atVenue' = IF resp[1] # 0 /\ req \in DOMAIN reqId_to_orderHandler
                     /\ LeavesVenue(req, resp[1], atVenue.amendReqs)
                  THEN [atVenue EXCEPT !.working =
                           @ \ {handlers[reqId_to_orderHandler[req]].clOrdId}]
                  ELSE atVenue
    /\ UNCHANGED <<eqVars, restVars>>
    /\ UNCHANGED <<venue, limits, frameSeen, m_wsState, clock, m_reqId, cancelQueue, filledQueue, m_currentPosition,
                   nOps>>

\* ByBitFills::onOrderUpdateMessage, topic "order", one data element
\* (threads_.bybit_fills); cumExec is the frame's cumExecQty
BybitOrderFrame(id, frame, cumExec) ==
    /\ venue = "bybit"
    /\ nFrames < limits.frames
    /\ nFrames' = nFrames + 1
    /\ IF ~KnownOrder(orderMap, id)
       THEN /\ orderMap' = OnUnknownOrder(orderMap, id)
            /\ last' = LastOf("orderFrame", id, 0, FALSE, FALSE, FALSE, 0, FALSE, NoCode,
                              NoCallback)
            /\ UNCHANGED <<handlers, cancelQueue, filledQueue, rejectedQueue>>
       ELSE LET idx == orderMap[id]
                h == handlers[idx]
                status == frame[1]
                reject == frame[2]
                h1 == CASE reject = "EC_PerCancelRequest" ->
                               [h EXCEPT !.status = "CANCELED", !.reason = "NONE"]
                         [] reject # "EC_NoError" ->
                               [h EXCEPT !.status = "REJECTED",
                                         !.reason = FillsRejectReason(reject)]
                         [] status = "New" ->
                               [h EXCEPT !.status = "LIVE", !.reason = "NONE",
                                         !.live = TRUE, !.cumFilled = cumExec]
                         [] status = "PartiallyFilled" ->
                               [h EXCEPT !.status = "PARTIALLY_FILLED", !.reason = "NONE"]
                         [] status = "Filled" ->
                               [h EXCEPT !.status = "FILLED", !.reason = "NONE"]
                         [] status = "Cancelled" ->
                               [h EXCEPT !.status = "CANCELED", !.reason = "NONE"]
                         [] OTHER -> h
                toCancel == reject = "EC_PerCancelRequest"
                                \/ (reject = "EC_NoError" /\ status = "Cancelled")
                toRejected == reject \notin {"EC_NoError", "EC_PerCancelRequest"}
                cq == IF toCancel THEN Append(cancelQueue, h.clOrdId) ELSE cancelQueue
                rq == IF toRejected THEN Append(rejectedQueue, h.clOrdId) ELSE rejectedQueue
                mt == IF toCancel \/ toRejected
                      THEN MaintainAll(cq, rq, filledQueue, orderMap)
                      ELSE [cq |-> cq, rq |-> rq, fq |-> filledQueue, m |-> orderMap]
                calls == reject # "EC_NoError" \/ status \in {"New", "Cancelled"}
            IN /\ handlers' = [handlers EXCEPT ![idx] = h1]
               /\ cancelQueue' = mt.cq
               /\ rejectedQueue' = mt.rq
               /\ filledQueue' = mt.fq
               /\ orderMap' = mt.m
               /\ last' = LastOf("orderFrame", id, 0, FALSE, FALSE, FALSE, 0, TRUE, NoCode,
                                 IF calls THEN Snapshot(h1) ELSE NoCallback)
    /\ UNCHANGED <<eqVars, restVars>>
    /\ frameSeen' = [status |-> frame[1], reject |-> frame[2], acc |-> cumExec]
    /\ atVenue' = IF frame[2] # "EC_NoError" \/ frame[1] \in {"Filled", "Cancelled", "Rejected"}
                  THEN [atVenue EXCEPT !.working = @ \ {id}]
                  ELSE atVenue
    /\ UNCHANGED <<venue, limits, m_wsState, clock, m_reqId, reqId_to_orderHandler, m_currentPosition, nOps>>

\* ByBitFills::onOrderUpdateMessage, topic "execution", one data element
BybitExecutionFrame(id, fillSz, leavesZero) ==
    /\ venue = "bybit"
    /\ nFrames < limits.frames
    /\ nFrames' = nFrames + 1
    /\ IF ~KnownOrder(orderMap, id)
       THEN /\ orderMap' = OnUnknownOrder(orderMap, id)
            /\ last' = LastOf("executionFrame", id, 0, FALSE, FALSE, FALSE, 0, FALSE, NoCode,
                              NoCallback)
            /\ UNCHANGED <<handlers, cancelQueue, filledQueue, rejectedQueue, m_currentPosition>>
       ELSE LET idx == orderMap[id]
                h == handlers[idx]
                h1 == [h EXCEPT !.reason = "NONE",
                                !.status = IF leavesZero THEN "FILLED"
                                           ELSE "PARTIALLY_FILLED",
                                !.cumFilled = h.cumFilled + fillSz]
                mt == IF leavesZero
                      THEN MaintainAll(cancelQueue, rejectedQueue,
                                       Append(filledQueue, h.clOrdId), orderMap)
                      ELSE [cq |-> cancelQueue, rq |-> rejectedQueue, fq |-> filledQueue,
                            m |-> orderMap]
            IN /\ handlers' = [handlers EXCEPT ![idx] = h1]
               /\ cancelQueue' = mt.cq
               /\ rejectedQueue' = mt.rq
               /\ filledQueue' = mt.fq
               /\ orderMap' = mt.m
               /\ m_currentPosition' = UpdatePosition(m_currentPosition, fillSz, h.side)
               /\ last' = LastOf("executionFrame", id, 0, FALSE, FALSE, FALSE, 0, TRUE,
                                 NoCode, Snapshot(h1))
    /\ atVenue' = IF leavesZero THEN [atVenue EXCEPT !.working = @ \ {id}] ELSE atVenue
    /\ UNCHANGED <<eqVars, restVars>>
    /\ UNCHANGED <<venue, limits, frameSeen, m_wsState, clock, m_reqId, reqId_to_orderHandler, nOps>>

\* (code, sCode) of the OKX responses the model delivers; code is the digit of
\* the frame's "code" string ("0" or "1")
OkxResponses == { <<0, "0">>, <<1, "51008">>, <<1, "51503">>, <<1, "59999">> }

\* OkxOrderManager::getUpdatedOrderStatus for a frame carrying "id" (the
\* request's id, rid) and "code", one data element (threads_.okx_order_manager).
\* Code "0" records timestamps only, which the model does not keep.  A request's
\* id is a timestamp its send read, so rid is at most the clock.
OkxResponse(rid, id, resp) ==
    /\ venue = "okx"
    /\ rid <= clock
    /\ nFrames < limits.frames
    /\ nFrames' = nFrames + 1
    /\ LET known == KnownOrder(orderMap, id)
           sCode == resp[2]
       IN IF resp[1] = 0 \/ ~known
          THEN /\ last' = LastOf("response", id, rid, FALSE, FALSE, FALSE, 0, known, NoCode,
                                 NoCallback)
               /\ UNCHANGED <<handlers, orderMap, cancelQueue, filledQueue, rejectedQueue>>
          ELSE LET idx == orderMap[id]
                   h == handlers[idx]
                   h1 == [h EXCEPT !.status = "REJECTED", !.reason = OkxRejectReason(sCode)]
                   pushes == OkxRejectPushes(sCode, h.live)
                   mt == IF pushes
                         THEN MaintainAll(cancelQueue, Append(rejectedQueue, h.clOrdId),
                                          filledQueue, orderMap)
                         ELSE [cq |-> cancelQueue, rq |-> rejectedQueue, fq |-> filledQueue,
                               m |-> orderMap]
               IN /\ handlers' = [handlers EXCEPT ![idx] = h1]
                  /\ cancelQueue' = mt.cq
                  /\ rejectedQueue' = mt.rq
                  /\ filledQueue' = mt.fq
                  /\ orderMap' = mt.m
                  /\ last' = LastOf("response", id, rid, FALSE, FALSE, FALSE, 0, TRUE, resp,
                                    Snapshot(h1))
    /\ atVenue' = IF resp[1] # 0 THEN [atVenue EXCEPT !.working = @ \ {id}] ELSE atVenue
    /\ UNCHANGED <<eqVars, restVars>>
    /\ UNCHANGED <<venue, limits, frameSeen, m_wsState, clock, m_reqId, reqId_to_orderHandler, m_currentPosition, nOps>>

\* OkxOrderManager::getUpdatedOrderStatus for an orders-channel frame, one data
\* element; acc is the frame's accFillSz, fillSz its fillSz (0: field absent)
OkxChannelFrame(id, state, acc, fillSz) ==
    /\ venue = "okx"
    /\ nFrames < limits.frames
    /\ nFrames' = nFrames + 1
    /\ IF ~KnownOrder(orderMap, id)
       THEN /\ orderMap' = OnUnknownOrder(orderMap, id)
            /\ last' = LastOf("channelFrame", id, 0, FALSE, FALSE, FALSE, 0, FALSE, NoCode,
                              NoCallback)
            /\ UNCHANGED <<handlers, cancelQueue, filledQueue, rejectedQueue, m_currentPosition>>
       ELSE LET idx == orderMap[id]
                h == handlers[idx]
                h1 == CASE state = "live" ->
                               [h EXCEPT !.reason = "NONE", !.status = "LIVE", !.live = TRUE]
                         [] state = "canceled" ->
                               [h EXCEPT !.reason = "NONE", !.status = "CANCELED",
                                         !.cumFilled = acc * OkxCtFactor]
                         [] state = "partially_filled" ->
                               [h EXCEPT !.reason = "NONE", !.status = "PARTIALLY_FILLED",
                                         !.cumFilled = acc * OkxCtFactor]
                         [] state = "filled" ->
                               [h EXCEPT !.reason = "NONE", !.status = "FILLED",
                                         !.cumFilled = acc * OkxCtFactor]
                         [] OTHER -> [h EXCEPT !.reason = "NONE"]
                cq == IF state = "canceled" THEN Append(cancelQueue, h.clOrdId)
                      ELSE cancelQueue
                fq == IF state = "filled" THEN Append(filledQueue, h.clOrdId)
                      ELSE filledQueue
                mt == IF state \in {"canceled", "filled"}
                      THEN MaintainAll(cq, rejectedQueue, fq, orderMap)
                      ELSE [cq |-> cq, rq |-> rejectedQueue, fq |-> fq, m |-> orderMap]
                fills == state \in {"partially_filled", "filled"} /\ fillSz # 0
            IN /\ handlers' = [handlers EXCEPT ![idx] = h1]
               /\ cancelQueue' = mt.cq
               /\ rejectedQueue' = mt.rq
               /\ filledQueue' = mt.fq
               /\ orderMap' = mt.m
               /\ m_currentPosition' = IF fills THEN UpdatePosition(m_currentPosition, fillSz, h.side)
                              ELSE m_currentPosition
               /\ last' = LastOf("channelFrame", id, 0, FALSE, FALSE, FALSE, 0, TRUE, NoCode,
                                 Snapshot(h1))
    /\ UNCHANGED <<eqVars, restVars>>
    /\ frameSeen' = [status |-> state, reject |-> "", acc |-> acc]
    /\ atVenue' = IF state \in {"canceled", "filled"}
                  THEN [atVenue EXCEPT !.working = @ \ {id}]
                  ELSE atVenue
    /\ UNCHANGED <<venue, limits, m_wsState, clock, m_reqId, reqId_to_orderHandler, nOps>>

NextOM ==
    \/ WsReady
    \/ WsClosed
    \/ \E buy \in BOOLEAN, sendOk \in BOOLEAN, t \in Ids : PlaceOrder(buy, sendOk, t)
    \/ \E id \in Ids, sendOk \in BOOLEAN, t \in Ids : CancelOrder(id, sendOk, t)
    \/ \E id \in Ids, sendOk \in BOOLEAN, t \in Ids : ModifyOrder(id, sendOk, t)
    \/ \E req \in 1..MaxOps, resp \in BybitResponses : BybitResponse(req, resp)
    \/ \E id \in Ids, frame \in BybitOrderFrames, cumExec \in 0..MaxFill :
           BybitOrderFrame(id, frame, cumExec)
    \/ \E id \in Ids, fillSz \in 1..MaxFill, leavesZero \in BOOLEAN :
           BybitExecutionFrame(id, fillSz, leavesZero)
    \/ \E rid \in Ids, id \in Ids, resp \in OkxResponses : OkxResponse(rid, id, resp)
    \/ \E id \in Ids, state \in OkxOrderStates, acc \in 0..MaxFill, fillSz \in 0..MaxFill :
           OkxChannelFrame(id, state, acc, fillSz)

-----------------------------------------------------------------------------
(* Part III: the position manager and its reconciliation loop *)

\* number of reconciliation cycles the model follows
MaxCycles == 3

\* number of fills the venue executes
MaxVenueFills == 2

\* number of recon() calls the strategy makes
MaxRecons == 2

\* markets.quote.tick_sizes.quantity (m_tickSize), a configuration value
TickSize == 1

\* *_recon.tolerable_threshold (m_tolerableThreshold), a configuration value
TolerableThreshold == 2

\* *_recon.max_mismatch_cnt (m_maxMismatchCount), a configuration value
MaxMismatchCount == 2

\* *_recon.max_failure_query_cnt (m_maxFailQueryCount), a configuration value
MaxFailQueryCount == 2

\* *_recon.normal_recon_interval_ms, retry_interval_on_failure_ms, retry_interval_on_mismatch_ms
NormalReconInterval == 5000

RetryIntervalOnFailure == 2000

RetryIntervalOnMismatch == 3000

\* the intervals of the shipped configuration
DefaultIntervals ==
    [normal |-> NormalReconInterval, failure |-> RetryIntervalOnFailure,
     mismatch |-> RetryIntervalOnMismatch]

\* the configurations followed: the shipped one, and one where a retry interval
\* equals the normal interval, for each of the two retry intervals
ReconIntervals ==
    {DefaultIntervals,
     [DefaultIntervals EXCEPT !.failure = NormalReconInterval],
     [DefaultIntervals EXCEPT !.mismatch = NormalReconInterval]}

Abs(x) == IF x < 0 THEN 0 - x ELSE x

\* what get<0..2>(result) are before the first reconcile() returned
NoResult == <<FALSE, 0, 0>>

\* a manager that counts every gap of at least m_tickSize as a repetition
MismatchCountersNoRestartMutant(prevGap, newGap, mm) ==
    IF prevGap = newGap THEN [mm |-> mm + 1, tries |-> 0] ELSE [mm |-> mm + 1, tries |-> 1]

\* the counters a gap of at least m_tickSize leaves: [mm, tries]
MismatchCounters(prevGap, newGap, mm) ==
    IF prevGap = newGap THEN [mm |-> mm + 1, tries |-> 0] ELSE [mm |-> 1, tries |-> 1]

\* a manager for which a gap of exactly m_tickSize is still no gap
ReconcileTickInclusiveMutant(internal, queryOk, exch, prevGap, mm, tries) ==
    IF ~queryOk
    THEN IF tries + 1 >= MaxFailQueryCount
         THEN [result |-> <<FALSE, 0, 0>>, status |-> "FailedQuery", gap |-> prevGap,
               mm |-> mm, tries |-> tries + 1]
         ELSE [result |-> <<TRUE, intervals.failure, 0>>, status |-> "NoGap", gap |-> prevGap,
               mm |-> mm, tries |-> tries + 1]
    ELSE LET newGap == Abs(exch - internal)
             c == MismatchCounters(prevGap, newGap, mm)
         IN IF newGap <= TickSize
            THEN [result |-> <<TRUE, intervals.normal, exch>>, status |-> "NoGap",
                  gap |-> newGap, mm |-> 0, tries |-> 0]
            ELSE IF c.mm >= MaxMismatchCount
                 THEN IF newGap < TolerableThreshold
                      THEN [result |-> <<TRUE, intervals.normal, exch>>,
                            status |-> "TolerableGap", gap |-> newGap, mm |-> c.mm,
                            tries |-> c.tries]
                      ELSE [result |-> <<FALSE, 0, exch>>, status |-> "IntolerableGap",
                            gap |-> newGap, mm |-> c.mm, tries |-> c.tries]
                 ELSE IF c.tries >= MaxFailQueryCount
                      THEN [result |-> <<FALSE, 0, exch>>, status |-> "UndeterminedGap",
                            gap |-> newGap, mm |-> c.mm, tries |-> c.tries]
                      ELSE [result |-> <<TRUE, intervals.mismatch, exch>>, status |-> "NoGap",
                            gap |-> newGap, mm |-> c.mm, tries |-> c.tries]

\* ReconciliationManager::reconcile(internalPosition, m_reconStatus): the tuple it
\* returns and the members it leaves.  queryOk and exch are what
\* fetch_position_impl returned.
Reconcile(internal, queryOk, exch, prevGap, mm, tries) ==
    IF ~queryOk
    THEN IF tries + 1 >= MaxFailQueryCount
         THEN [result |-> <<FALSE, 0, 0>>, status |-> "FailedQuery", gap |-> prevGap,
               mm |-> mm, tries |-> tries + 1]
         ELSE [result |-> <<TRUE, intervals.failure, 0>>, status |-> "NoGap", gap |-> prevGap,
               mm |-> mm, tries |-> tries + 1]
    ELSE LET newGap == Abs(exch - internal)
             c == MismatchCounters(prevGap, newGap, mm)
         IN IF newGap < TickSize
            THEN [result |-> <<TRUE, intervals.normal, exch>>, status |-> "NoGap",
                  gap |-> newGap, mm |-> 0, tries |-> 0]
            ELSE IF c.mm >= MaxMismatchCount
                 THEN IF newGap < TolerableThreshold
                      THEN [result |-> <<TRUE, intervals.normal, exch>>,
                            status |-> "TolerableGap", gap |-> newGap, mm |-> c.mm,
                            tries |-> c.tries]
                      ELSE [result |-> <<FALSE, 0, exch>>, status |-> "IntolerableGap",
                            gap |-> newGap, mm |-> c.mm, tries |-> c.tries]
                 ELSE IF c.tries >= MaxFailQueryCount
                      THEN [result |-> <<FALSE, 0, exch>>, status |-> "UndeterminedGap",
                            gap |-> newGap, mm |-> c.mm, tries |-> c.tries]
                      ELSE [result |-> <<TRUE, intervals.mismatch, exch>>, status |-> "NoGap",
                            gap |-> newGap, mm |-> c.mm, tries |-> c.tries]

\* the manager after its constructor (posReconWarmup succeeded and seeded the
\* position with the venue's) and start().  gap has no initialiser: its first
\* value is whatever the memory holds.
InitPMState(firstGap, cfg) ==
    /\ exchangePosition = 0
    /\ fillFrames = <<>>
    /\ rpc = "wait"
    /\ internalPosition = 0
    /\ result = NoResult
    /\ gap = firstGap
    /\ m_mismatchCounter = 0
    /\ m_reconTryCounter = 0
    /\ m_reconStatus = "NoGap"
    /\ nCycles = 0
    /\ nFills = 0
    /\ reconciledPosition = 0
    /\ observedFills = 0
    /\ observedSinceQuery = 0
    /\ m_running = TRUE
    /\ m_nextReconTimeReached = TRUE
    /\ m_reconPromise = 0
    /\ futures = <<>>
    /\ reconCallbacks = <<>>
    /\ nRecons = 0
    /\ sameGapRun = 0
    /\ lastObservedGap = -1
    /\ failsInRow = 0
    /\ unresolvedRun = 0
    /\ intervals = cfg
    /\ mpos = "alive"
    /\ joined = FALSE
    /\ nStops = 0

InitPM == \E firstGap \in {0, 1}, cfg \in ReconIntervals : InitPMState(firstGap, cfg)

\* number of stop() calls the model follows
MaxStops == 2

\* whether a thread that locks m_mutex gets it: the manager is there, and its
\* owner is not stuck in the destructor holding the lock
MutexFree == mpos \in {"alive", "joining", "dtorJoining"}

\* the venue executes a fill of one of the strategy's orders and sends its frame
VenueFill(fillSz, buy) ==
    /\ nFills < MaxVenueFills
    /\ nFills' = nFills + 1
    /\ exchangePosition' = UpdatePosition(exchangePosition, fillSz, buy)
    /\ fillFrames' = Append(fillFrames, <<fillSz, buy>>)
    /\ UNCHANGED <<rpc, internalPosition, result, gap, m_mismatchCounter, m_reconTryCounter,
                   m_reconStatus, nCycles, reconciledPosition, observedFills, observedSinceQuery,
                   pmSync, pmHist>>
    /\ UNCHANGED pmCtl
    /\ UNCHANGED <<eqVars, omVars, hgVars, wsVars, stVars, libVars>>

\* update_position_by_fillsz(fill_sz, side), called by the fills thread for the
\* oldest frame in flight; it holds m_mutex, which the loop does not hold
\* outside its wait
update_position_by_fillsz ==
    /\ fillFrames # <<>>
    /\ MutexFree
    /\ LET fillSz == Head(fillFrames)[1]
           buy == Head(fillFrames)[2]
           delta == UpdatePosition(0, fillSz, buy)
       IN /\ m_currentPosition' = UpdatePosition(m_currentPosition, fillSz, buy)
          /\ observedFills' = observedFills + delta
          /\ observedSinceQuery' = observedSinceQuery + delta
    /\ fillFrames' = Tail(fillFrames)
    /\ UNCHANGED <<exchangePosition, rpc, internalPosition, result, gap, m_mismatchCounter,
                   m_reconTryCounter, m_reconStatus, nCycles, nFills, reconciledPosition,
                   pmSync, pmHist>>
    /\ UNCHANGED pmCtl
    /\ UNCHANGED <<eqVars, omRest, hgVars, wsVars, stVars, libVars>>

\* the predicate of m_reconCV.wait_until in reconciliationLoop: a notification
\* that finds it false puts the thread back to sleep
WaitPredicate(isRunning, timeReached, promised) == ~isRunning \/ timeReached

\* a loop that leaves only when the queries fail
ReconLoopBreaksOnFailureOnlyMutant(status) == status = "FailedQuery"

\* the statuses after which reconciliationLoop breaks out of its while
ReconLoopBreaks(status) == status \in {"FailedQuery", "IntolerableGap"}

\* system_clock::now() reaches m_nextReconTime
NextReconTimeReached ==
    /\ ~m_nextReconTimeReached
    /\ m_nextReconTimeReached' = TRUE
    /\ UNCHANGED <<exchangePosition, fillFrames, rpc, internalPosition, result, gap,
                   m_mismatchCounter, m_reconTryCounter, m_reconStatus, nCycles, nFills,
                   reconciledPosition, observedFills, observedSinceQuery, m_running, m_reconPromise,
                   futures, reconCallbacks, nRecons, pmHist>>
    /\ UNCHANGED pmCtl
    /\ UNCHANGED <<eqVars, omVars, hgVars, wsVars, stVars, libVars>>

\* a future recon() hands out, and the ways it ends
PendingFuture == [value |-> "pending", sets |-> 0]

Fulfil(fs, i, status) == [fs EXCEPT ![i] = [value |-> status, sets |-> @.sets + 1]]

Abandon(fs, i) == [fs EXCEPT ![i] = [value |-> "broken_promise", sets |-> @.sets]]

\* recon(), called by a strategy thread; it holds m_mutex.  Its notify_one
\* wakes the loop, which re-evaluates WaitPredicate.  The move-assignment to
\* m_reconPromise destroys the promise that was there.
recon ==
    /\ nRecons < MaxRecons
    /\ MutexFree
    /\ nRecons' = nRecons + 1
    /\ IF ~m_running
       THEN /\ futures' = Append(futures, [value |-> m_reconStatus, sets |-> 1])
            /\ UNCHANGED m_reconPromise
       ELSE /\ futures' = Append(IF m_reconPromise # 0 THEN Abandon(futures, m_reconPromise)
                                                       ELSE futures,
                                 PendingFuture)
            /\ m_reconPromise' = Len(futures) + 1
    /\ UNCHANGED <<exchangePosition, fillFrames, rpc, internalPosition, result, gap,
                   m_mismatchCounter, m_reconTryCounter, m_reconStatus, nCycles, nFills,
                   reconciledPosition, observedFills, observedSinceQuery, m_running,
                   m_nextReconTimeReached, reconCallbacks, pmHist>>
    /\ UNCHANGED pmCtl
    /\ UNCHANGED <<eqVars, omVars, hgVars, wsVars, stVars, libVars>>

\* reconciliationLoop: the wait ended, the lock is released, and the argument
\* m_currentPosition.load() of reconcile() is evaluated
ReconLoad ==
    /\ rpc = "wait"
    /\ MutexFree
    /\ m_running
    /\ WaitPredicate(m_running, m_nextReconTimeReached, m_reconPromise # 0)
    /\ nCycles < MaxCycles
    /\ nCycles' = nCycles + 1
    /\ internalPosition' = m_currentPosition
    /\ rpc' = "loaded"
    /\ UNCHANGED <<exchangePosition, fillFrames, result, gap, m_mismatchCounter,
                   m_reconTryCounter, m_reconStatus, nFills, reconciledPosition, observedFills,
                   observedSinceQuery, pmSync, pmHist>>
    /\ UNCHANGED pmCtl
    /\ UNCHANGED <<eqVars, omVars, hgVars, wsVars, stVars, libVars>>

\* reconcile(): the HTTP query and the classification of its answer
ReconQuery(queryOk) ==
    /\ rpc = "loaded"
    /\ LET r == Reconcile(internalPosition, queryOk, exchangePosition, gap, m_mismatchCounter,
                          m_reconTryCounter)
       IN /\ result' = r.result
          /\ m_reconStatus' = r.status
          /\ gap' = r.gap
          /\ m_mismatchCounter' = r.mm
          /\ m_reconTryCounter' = r.tries
    /\ observedSinceQuery' = 0
    /\ rpc' = "returned"
    /\ LET observed == Abs(exchangePosition - internalPosition)
           run == IF observed < TickSize THEN 0
                  ELSE IF observed = lastObservedGap THEN sameGapRun + 1 ELSE 1
       IN IF queryOk
          THEN /\ failsInRow' = 0
               /\ lastObservedGap' = observed
               /\ sameGapRun' = run
               /\ unresolvedRun' = IF observed < TickSize \/ run >= MaxMismatchCount
                                   THEN 0 ELSE unresolvedRun + 1
          ELSE /\ failsInRow' = failsInRow + 1
               /\ unresolvedRun' = 0
               /\ UNCHANGED <<lastObservedGap, sameGapRun>>
    /\ UNCHANGED <<exchangePosition, fillFrames, internalPosition, nCycles, nFills,
                   reconciledPosition, observedFills, pmSync>>
    /\ UNCHANGED pmCtl
    /\ UNCHANGED <<eqVars, omVars, hgVars, wsVars, stVars, libVars>>

\* reconciliationLoop after reconcile() returned: the store of the fetched
\* position on the normal interval, and the exit on a terminal status
ReconApply(late) ==
    /\ rpc = "returned"
    /\ m_nextReconTimeReached' = IF result[1] THEN late ELSE m_nextReconTimeReached
    /\ IF m_reconPromise # 0
       THEN /\ futures' = Fulfil(futures, m_reconPromise, m_reconStatus)
            /\ m_reconPromise' = 0
       ELSE UNCHANGED <<futures, m_reconPromise>>
    /\ reconCallbacks' = Append(reconCallbacks, m_reconStatus)
    /\ IF result[1] /\ result[2] = intervals.normal
       THEN /\ m_currentPosition' = result[3]
            /\ reconciledPosition' = result[3]
            /\ observedFills' = observedSinceQuery
       ELSE UNCHANGED <<m_currentPosition, reconciledPosition, observedFills>>
    /\ rpc' = IF ReconLoopBreaks(m_reconStatus) THEN "break" ELSE "wait"
    /\ UNCHANGED <<exchangePosition, fillFrames, internalPosition, result, gap, m_mismatchCounter,
                   m_reconTryCounter, m_reconStatus, nCycles, nFills, observedSinceQuery,
                   m_running, nRecons, pmHist>>
    /\ UNCHANGED pmCtl
    /\ UNCHANGED <<eqVars, omRest, hgVars, wsVars, stVars, libVars>>

\* reconciliationLoop after its while: under m_mutex, m_running becomes false
\* and a promise that is there is fulfilled with FailedQuery
ReconExit ==
    /\ rpc = "break"
    /\ MutexFree
    /\ rpc' = "exited"
    /\ m_running' = FALSE
    /\ IF m_reconPromise # 0
       THEN /\ futures' = Fulfil(futures, m_reconPromise, "FailedQuery")
            /\ m_reconPromise' = 0
       ELSE UNCHANGED <<futures, m_reconPromise>>
    /\ UNCHANGED <<exchangePosition, fillFrames, internalPosition, result, gap, m_mismatchCounter,
                   m_reconTryCounter, m_reconStatus, nCycles, nFills, reconciledPosition,
                   observedFills, observedSinceQuery, m_nextReconTimeReached, reconCallbacks,
                   nRecons, pmHist>>
    /\ UNCHANGED pmCtl
    /\ UNCHANGED <<eqVars, omVars, hgVars, wsVars, stVars, libVars>>

\* reconciliationLoop finds m_running false, in its wait under m_mutex or in
\* the condition of its while, and leaves
ReconStopped ==
    /\ rpc = "wait"
    /\ ~m_running
    /\ MutexFree
    /\ rpc' = "break"
    /\ UNCHANGED <<exchangePosition, fillFrames, internalPosition, result, gap, m_mismatchCounter,
                   m_reconTryCounter, m_reconStatus, nCycles, nFills, reconciledPosition,
                   observedFills, observedSinceQuery, pmSync, pmHist, pmCtl>>
    /\ UNCHANGED <<eqVars, omVars, hgVars, wsVars, stVars, libVars>>

\* stop() up to its join: under m_mutex it returns when m_running is false, and
\* clears m_running otherwise; then it notifies the loop
PositionManager_stop ==
    /\ mpos = "alive"
    /\ nStops < MaxStops
    /\ nStops' = nStops + 1
    /\ IF ~m_running
       THEN UNCHANGED <<m_running, mpos>>
       ELSE /\ m_running' = FALSE
            /\ mpos' = "joining"
    /\ UNCHANGED <<exchangePosition, fillFrames, rpc, internalPosition, result, gap,
                   m_mismatchCounter, m_reconTryCounter, m_reconStatus, nCycles, nFills,
                   reconciledPosition, observedFills, observedSinceQuery, m_nextReconTimeReached,
                   m_reconPromise, futures, reconCallbacks, nRecons, pmHist, intervals, joined>>
    /\ UNCHANGED <<eqVars, omVars, hgVars, wsVars, stVars, libVars>>

\* m_reconThread.join() in stop() returns: the loop thread has finished
ReconThreadJoin ==
    /\ mpos \in {"joining", "dtorJoining"}
    /\ rpc = "exited"
    /\ joined' = TRUE
    /\ mpos' = IF mpos = "joining" THEN "alive" ELSE "destroyed"
    /\ UNCHANGED <<exchangePosition, fillFrames, rpc, internalPosition, result, gap,
                   m_mismatchCounter, m_reconTryCounter, m_reconStatus, nCycles, nFills,
                   reconciledPosition, observedFills, observedSinceQuery, pmSync, pmHist,
                   intervals, nStops>>
    /\ UNCHANGED <<eqVars, omVars, hgVars, wsVars, stVars, libVars>>

\* ~PositionManager(): it locks m_mutex and, when m_running, calls stop(), which
\* locks m_mutex again on the same thread.  Locking a std::mutex the thread
\* owns is undefined: the thread blocks on itself, or (reenters) the second lock
\* is granted and stop() runs on.  When m_running is false the members are
\* destroyed, and destroying a joinable std::thread calls std::terminate.
Destructor(reenters) ==
    /\ mpos = "alive"
    /\ IF m_running
       THEN IF reenters
            THEN /\ m_running' = FALSE
                 /\ mpos' = "dtorJoining"
            ELSE /\ mpos' = "blocked"
                 /\ UNCHANGED m_running
       ELSE /\ mpos' = IF joined THEN "destroyed" ELSE "terminated"
            /\ UNCHANGED m_running
    /\ UNCHANGED <<exchangePosition, fillFrames, rpc, internalPosition, result, gap,
                   m_mismatchCounter, m_reconTryCounter, m_reconStatus, nCycles, nFills,
                   reconciledPosition, observedFills, observedSinceQuery, m_nextReconTimeReached,
                   m_reconPromise, futures, reconCallbacks, nRecons, pmHist, intervals, joined,
                   nStops>>
    /\ UNCHANGED <<eqVars, omVars, hgVars, wsVars, stVars, libVars>>

NextPM ==
    \/ \E fillSz \in 1..MaxFill, buy \in BOOLEAN : VenueFill(fillSz, buy)
    \/ update_position_by_fillsz
    \/ ReconLoad
    \/ \E queryOk \in BOOLEAN : ReconQuery(queryOk)
    \/ \E late \in BOOLEAN : ReconApply(late)
    \/ ReconExit
    \/ NextReconTimeReached
    \/ recon
    \/ ReconStopped
    \/ PositionManager_stop
    \/ ReconThreadJoin
    \/ \E reenters \in BOOLEAN : Destructor(reenters)

-----------------------------------------------------------------------------
(* Part IV: the hedger over the hedge venue's order manager *)

\* number of hedge() calls the model follows
MaxHedgeCalls == 3

\* number of quote-side fills the model follows
MaxQuoteFills == 2

\* largest quote-side fill, in lots
MaxQuoteFill == 2

\* hedger.min_hedge_size (min_hedge_size_), a configuration value, in lots
MinHedgeSize == 1

InFlightStatus == {"PENDING", "LIVE", "PARTIALLY_FILLED"}

RECURSIVE SumOver(_, _)
\* the sum of f[i] over the finite set S of indices
SumOver(f, S) ==
    IF S = {} THEN 0 ELSE LET i == CHOOSE x \in S : TRUE IN f[i] + SumOver(f, S \ {i})

\* what one order adds to total_size in get_potential_fill_size(side):
\* m_qtySubmitted while PENDING, m_qtyOnExch while LIVE or PARTIALLY_FILLED
PotentialOfOrder(o, buy) ==
    IF o.side # buy THEN 0
    ELSE IF o.status = "PENDING" THEN o.qtySubmitted
    ELSE IF o.status \in {"LIVE", "PARTIALLY_FILLED"} THEN o.qtyOnExch
    ELSE 0

\* Hedger::get_potential_fill_size(side); buy stands for side == Side::Type::Bid
get_potential_fill_size(orders, buy) ==
    SumOver([i \in 1..Len(orders) |-> PotentialOfOrder(orders[i], buy)], 1..Len(orders))

\* Hedger::calculate_unhedged_exposure(exposure)
calculate_unhedged_exposure(exposure, orders) ==
    IF exposure > 0
    THEN LET potential_ask_fills == get_potential_fill_size(orders, FALSE)
         IN IF exposure > potential_ask_fills THEN exposure - potential_ask_fills ELSE 0
    ELSE IF exposure < 0
    THEN LET potential_bid_fills == get_potential_fill_size(orders, TRUE)
         IN IF (0 - exposure) > potential_bid_fills THEN exposure + potential_bid_fills ELSE 0
    ELSE 0

\* Hedger::is_exposure_significant
is_exposure_significant(exposure) == Abs(exposure) >= MinHedgeSize

\* Hedger::determine_hedge_side, as the buy flag send_hedge_order passes
determine_hedge_side(exposure) == ~(exposure > 0)

NoHedge == [call |-> 0, submitted |-> FALSE, size |-> 0, buy |-> FALSE, ordType |-> "none",
            exposure |-> 0, before |-> <<>>]

\* the hedger, both position managers and the hedge order manager as constructed
InitHG ==
    /\ quotePosition = 0
    /\ hedgePosition = 0
    /\ hedgeOrders = <<>>
    /\ venueOpen = <<>>
    /\ hedgeFrames = <<>>
    /\ hpc = "idle"
    /\ total_exposure = 0
    /\ nHedgeCalls = 0
    /\ nQuoteFills = 0
    /\ lastHedge = NoHedge

\* a fill of a quote order: the quote venue's fills thread updates the quote
\* position manager
QuoteFill(fillSz, buy) ==
    /\ nQuoteFills < MaxQuoteFills
    /\ nQuoteFills' = nQuoteFills + 1
    /\ quotePosition' = IF buy THEN quotePosition + fillSz ELSE quotePosition - fillSz
    /\ UNCHANGED <<hedgePosition, hedgeOrders, venueOpen, hedgeFrames, hpc, total_exposure,
                   nHedgeCalls, lastHedge>>
    /\ UNCHANGED <<eqVars, omVars, pmVars, wsVars, stVars, libVars>>

\* hedge(), first half, on the thread that calls it: calculate_total_exposure
\* reads both position managers; the call returns when the exposure is small
HedgeReadExposure ==
    /\ hpc = "idle"
    /\ nHedgeCalls < MaxHedgeCalls
    /\ nHedgeCalls' = nHedgeCalls + 1
    /\ total_exposure' = quotePosition + hedgePosition
    /\ IF is_exposure_significant(quotePosition + hedgePosition)
       THEN hpc' = "exposure" /\ UNCHANGED lastHedge
       ELSE /\ hpc' = "idle"
            /\ lastHedge' = [NoHedge EXCEPT !.call = nHedgeCalls + 1,
                                            !.exposure = quotePosition + hedgePosition,
                                            !.before = hedgeOrders]
    /\ UNCHANGED <<quotePosition, hedgePosition, hedgeOrders, venueOpen, hedgeFrames, nQuoteFills>>
    /\ UNCHANGED <<eqVars, omVars, pmVars, wsVars, stVars, libVars>>

\* hedge(), second half: calculate_unhedged_exposure reads the order map, and
\* send_hedge_order calls placeOrder(instrument_, 0.0, size, side == bid, "market").
\* placed: the router was ready and the send succeeded, so that the order is
\* PENDING in the order map and reaches the venue, which answers "live".
HedgeSubmit(placed) ==
    /\ hpc = "exposure"
    /\ hpc' = "idle"
    /\ LET unhedged_exposure == calculate_unhedged_exposure(total_exposure, hedgeOrders)
           size == Abs(unhedged_exposure)
           buy == determine_hedge_side(unhedged_exposure)
           sends == is_exposure_significant(unhedged_exposure)
       IN /\ lastHedge' = [call |-> nHedgeCalls, submitted |-> sends /\ placed,
                           size |-> IF sends THEN size ELSE 0, buy |-> buy,
                           ordType |-> IF sends THEN "market" ELSE "none",
                           exposure |-> total_exposure, before |-> hedgeOrders]
          /\ IF sends /\ placed
             THEN /\ hedgeOrders' = Append(hedgeOrders,
                                           [status |-> "PENDING", side |-> buy, qtySubmitted |-> size,
                                            qtyOnExch |-> 0, cumFilled |-> 0])
                  /\ venueOpen' = Append(venueOpen, size)
                  /\ hedgeFrames' = Append(hedgeFrames,
                                           [ord |-> Len(hedgeOrders) + 1, state |-> "live",
                                            sz |-> size, accFillSz |-> 0, fillSz |-> 0])
             ELSE UNCHANGED <<hedgeOrders, venueOpen, hedgeFrames>>
    /\ UNCHANGED <<quotePosition, hedgePosition, total_exposure, nHedgeCalls, nQuoteFills>>
    /\ UNCHANGED <<eqVars, omVars, pmVars, wsVars, stVars, libVars>>

\* the hedge venue executes fillSz of order ord and pushes the order's new state
VenueExecutes(ord, fillSz) ==
    /\ ord \in 1..Len(venueOpen)
    /\ fillSz <= venueOpen[ord]
    /\ venueOpen' = [venueOpen EXCEPT ![ord] = @ - fillSz]
    /\ hedgeFrames' = Append(hedgeFrames,
                             [ord |-> ord,
                              state |-> IF fillSz = venueOpen[ord] THEN "filled"
                                        ELSE "partially_filled",
                              sz |-> hedgeOrders[ord].qtySubmitted,
                              accFillSz |-> hedgeOrders[ord].qtySubmitted - venueOpen[ord] + fillSz,
                              fillSz |-> fillSz])
    /\ UNCHANGED <<quotePosition, hedgePosition, hedgeOrders, hpc, total_exposure, nHedgeCalls,
                   nQuoteFills, lastHedge>>
    /\ UNCHANGED <<eqVars, omVars, pmVars, wsVars, stVars, libVars>>

\* OkxOrderManager::getUpdatedOrderStatus for the oldest orders-channel frame,
\* on the order manager's thread
HedgeOrderFrame ==
    /\ hedgeFrames # <<>>
    /\ LET fr == Head(hedgeFrames)
           o == hedgeOrders[fr.ord]
       IN CASE fr.state = "live" ->
                 /\ hedgeOrders' = [hedgeOrders EXCEPT ![fr.ord] =
                                        [o EXCEPT !.status = "LIVE", !.qtyOnExch = fr.sz]]
                 /\ UNCHANGED hedgePosition
            [] fr.state = "partially_filled" ->
                 /\ hedgeOrders' = [hedgeOrders EXCEPT ![fr.ord] =
                                        [o EXCEPT !.status = "PARTIALLY_FILLED",
                                                  !.cumFilled = fr.accFillSz]]
                 /\ hedgePosition' = IF o.side THEN hedgePosition + fr.fillSz
                                     ELSE hedgePosition - fr.fillSz
            [] OTHER ->
                 /\ hedgeOrders' = [hedgeOrders EXCEPT ![fr.ord] =
                                        [o EXCEPT !.status = "FILLED",
                                                  !.cumFilled = fr.accFillSz]]
                 /\ hedgePosition' = IF o.side THEN hedgePosition + fr.fillSz
                                     ELSE hedgePosition - fr.fillSz
    /\ hedgeFrames' = Tail(hedgeFrames)
    /\ UNCHANGED <<quotePosition, venueOpen, hpc, total_exposure, nHedgeCalls, nQuoteFills,
                   lastHedge>>
    /\ UNCHANGED <<eqVars, omVars, pmVars, wsVars, stVars, libVars>>

NextHG ==
    \/ \E fillSz \in 1..MaxQuoteFill, buy \in BOOLEAN : QuoteFill(fillSz, buy)
    \/ HedgeReadExposure
    \/ \E placed \in BOOLEAN : HedgeSubmit(placed)
    \/ \E ord \in 1..MaxHedgeCalls, fillSz \in 1..(2 * MaxQuoteFill) : VenueExecutes(ord, fillSz)
    \/ HedgeOrderFrame

-----------------------------------------------------------------------------
(* Part V: one websocket channel and its reconnection *)

\* exchange_stability.ws_reconnection_retry_limit (retry_limit), a configuration value
RetryLimit == 3

\* number of close/fail events the model follows
MaxCloses == 5

\* number of heartbeats the model follows
MaxBeats == 2

\* "router": ByBitOrderRouter / OkxOrderRouter, "fills": ByBitFills,
\* "md": a market-data connector derived from WebSocketClient
Kinds == {"router", "fills", "md"}

\* request_shutdown() is the only writer of shutdown_requested and nothing calls it
shutdown_requested == FALSE

\* handle_disconnect and the close/fail handlers of setupClient: reconnect_attempt + 1 > retry_limit
ReachedRetryLimit(attempt) == attempt + 1 > RetryLimit

\* reconnect_attempt after connect_to_websocket: the routers and ByBitFills
\* count every call, WebSocketClient::connect_to_websocket does not count
AttemptAfterConnect(k, attempt) == IF k = "md" THEN attempt ELSE attempt + 1

\* get_connection + connect: a new connection of the channel, made by thread by
NewConnection(by, afterStop) == [state |-> "connecting", by |-> by, afterStop |-> afterStop]

Live(c) == c.state \in {"connecting", "open"}

\* every connection the endpoint served is gone once the endpoint is stopped
CloseAll(cs) == [i \in 1..Len(cs) |-> [cs[i] EXCEPT !.state = "closed"]]

\* the channel after construction, before its thread runs start() or
\* setupRoutingConnection()
InitWSState ==
    /\ reconnect_attempt = 0
    /\ conn = <<>>
    /\ routing_hdl = 0
    /\ ioStopped = FALSE
    /\ cleaning_up = FALSE
    /\ stopped = FALSE
    /\ started = FALSE
    /\ hpos = "idle"
    /\ tpos = "idle"
    /\ emitted = <<>>
    /\ nCloses = 0
    /\ nBeats = 0

InitWS == kind \in Kinds /\ InitWSState

\* start() / setupRoutingConnection() on the channel's thread: the first
\* connect_to_websocket
WsStart ==
    /\ ~started
    /\ ~stopped
    /\ started' = TRUE
    /\ reconnect_attempt' = AttemptAfterConnect(kind, 0)
    /\ conn' = Append(conn, NewConnection("channel", stopped))
    /\ UNCHANGED <<kind, routing_hdl, ioStopped, cleaning_up, stopped, hpos, tpos, emitted, nCloses,
                   nBeats>>
    /\ UNCHANGED <<eqVars, omVars, pmVars, hgVars, stVars, libVars>>

\* the open handler: routing_hdl = hdl / current_hdl = hdl
WsOpen(c) ==
    /\ c \in 1..Len(conn)
    /\ conn[c].state = "connecting"
    /\ ~ioStopped
    /\ hpos = "idle"
    /\ conn' = [conn EXCEPT ![c].state = "open"]
    /\ routing_hdl' = c
    /\ UNCHANGED <<kind, reconnect_attempt, ioStopped, cleaning_up, stopped, started, hpos, tpos,
                   emitted, nCloses, nBeats>>
    /\ UNCHANGED <<eqVars, omVars, pmVars, hgVars, stVars, libVars>>

\* the close handler (an open connection) or the fail handler (a connecting
\* one) on the channel's thread, up to the status callback: handle_disconnect
\* of the routers and ByBitFills, the handlers of setupClient for "md"
WsCloseOrFail(c) ==
    /\ c \in 1..Len(conn)
    /\ Live(conn[c])
    /\ ~ioStopped
    /\ hpos = "idle"
    /\ nCloses < MaxCloses
    /\ nCloses' = nCloses + 1
    /\ conn' = [conn EXCEPT ![c].state = "closed"]
    /\ emitted' = Append(emitted, ReachedRetryLimit(reconnect_attempt))
    /\ hpos' = IF ReachedRetryLimit(reconnect_attempt) THEN "idle" ELSE "reconnect"
    /\ UNCHANGED <<kind, reconnect_attempt, routing_hdl, ioStopped, cleaning_up, stopped, started,
                   tpos, nBeats>>
    /\ UNCHANGED <<eqVars, omVars, pmVars, hgVars, stVars, libVars>>

\* the rest of the handler: schedule_reconnect() -> connect_to_websocket() for
\* the routers and ByBitFills; schedule_reconnection() for "md", which returns
\* when shutdown_requested, and otherwise calls stop(), clears cleaning_up,
\* makes a new client and connects.  When stop() destroyed the client this
\* handler runs in, the behaviour is undefined: the thread goes on (survives)
\* or dies.
WsReconnect(survives) ==
    /\ hpos = "reconnect"
    /\ IF kind = "md" /\ shutdown_requested
       THEN hpos' = "idle" /\ UNCHANGED <<reconnect_attempt, conn, ioStopped, cleaning_up>>
       ELSE IF kind = "md" /\ stopped /\ ~survives
       THEN hpos' = "crashed" /\ UNCHANGED <<reconnect_attempt, conn, ioStopped, cleaning_up>>
       ELSE /\ hpos' = "idle"
            /\ reconnect_attempt' = AttemptAfterConnect(kind, reconnect_attempt)
            /\ conn' = Append(IF kind = "md" THEN CloseAll(conn) ELSE conn,
                              NewConnection("channel", stopped))
            /\ ioStopped' = IF kind = "md" THEN FALSE ELSE ioStopped
            /\ cleaning_up' = IF kind = "md" THEN FALSE ELSE cleaning_up
    /\ UNCHANGED <<kind, routing_hdl, stopped, started, tpos, emitted, nCloses, nBeats>>
    /\ UNCHANGED <<eqVars, omVars, pmVars, hgVars, stVars, libVars>>

\* stop() on the main thread (stop_trading_managers, stop_all_ws): the routers
\* and ByBitFills close routing_hdl and stop the endpoint; WebSocketClient::stop
\* returns when cleaning_up was set, and otherwise stops and destroys the client
WsStop ==
    /\ started
    /\ ~stopped
    /\ stopped' = TRUE
    /\ IF kind = "md" /\ cleaning_up
       THEN UNCHANGED <<conn, ioStopped, cleaning_up>>
       ELSE /\ conn' = CloseAll(conn)
            /\ ioStopped' = TRUE
            /\ cleaning_up' = IF kind = "md" THEN TRUE ELSE cleaning_up
    /\ UNCHANGED <<kind, reconnect_attempt, routing_hdl, started, hpos, tpos, emitted, nCloses,
                   nBeats>>
    /\ UNCHANGED <<eqVars, omVars, pmVars, hgVars, stVars, libVars>>

\* send_heartbeat() on the timer thread (Timer::start -> send_ws_heartbeats).
\* The send throws unless the handle names an open connection.  The routers'
\* managers and the connectors then report WebSocketDisconnected(false);
\* ByBitFills calls handle_disconnect().  A connector whose client stop()
\* destroyed dereferences a null pointer.
Heartbeat ==
    /\ started
    /\ tpos = "idle"
    /\ nBeats < MaxBeats
    /\ nBeats' = nBeats + 1
    /\ IF kind = "md" /\ stopped /\ ioStopped
       THEN tpos' = "crashed" /\ UNCHANGED emitted
       ELSE IF routing_hdl # 0 /\ conn[routing_hdl].state = "open"
       THEN UNCHANGED <<tpos, emitted>>
       ELSE IF kind = "fills"
       THEN /\ emitted' = Append(emitted, ReachedRetryLimit(reconnect_attempt))
            /\ tpos' = IF ReachedRetryLimit(reconnect_attempt) THEN "idle" ELSE "reconnect"
       ELSE /\ emitted' = Append(emitted, FALSE)
            /\ UNCHANGED tpos
    /\ UNCHANGED <<kind, reconnect_attempt, conn, routing_hdl, ioStopped, cleaning_up, stopped,
                   started, hpos, nCloses>>
    /\ UNCHANGED <<eqVars, omVars, pmVars, hgVars, stVars, libVars>>

\* ByBitFills::send_heartbeat -> handle_disconnect -> schedule_reconnect ->
\* connect_to_websocket on the timer thread, which then stays in run()
TimerReconnect ==
    /\ tpos = "reconnect"
    /\ tpos' = "run"
    /\ reconnect_attempt' = AttemptAfterConnect(kind, reconnect_attempt)
    /\ conn' = Append(conn, NewConnection("timer", stopped))
    /\ UNCHANGED <<kind, routing_hdl, ioStopped, cleaning_up, stopped, started, hpos, emitted,
                   nCloses, nBeats>>
    /\ UNCHANGED <<eqVars, omVars, pmVars, hgVars, stVars, libVars>>

NextWS ==
    \/ WsStart
    \/ \E c \in 1..(MaxCloses + MaxBeats + 1) : WsOpen(c)
    \/ \E c \in 1..(MaxCloses + MaxBeats + 1) : WsCloseOrFail(c)
    \/ \E survives \in BOOLEAN : WsReconnect(survives)
    \/ WsStop
    \/ Heartbeat
    \/ TimerReconnect

-----------------------------------------------------------------------------
(* Part VI: the process lifecycle *)

\* trading_control.strategy_ready_timeout_seconds, in rounds of the wait loop
TimeoutRounds == 2

\* number of SIGINT/SIGTERM/SIGABRT deliveries
MaxSignals == 1

\* number of PositionRecon and WebSocketDisconnected events submitted
MaxStrategyEvents == 2

Books == {"binance", "bybit", "okx"}

PositionManagers == {"bybit", "okx"}

ReconStatuses == {"NoGap", "TolerableGap", "UndeterminedGap", "IntolerableGap", "FailedQuery"}

\* the PositionRecon and WebSocketDisconnected events the callback adapter submits
StrategyEvents ==
    [type : {"PositionRecon"}, status : ReconStatuses, reached_retry_limit : {FALSE}]
        \cup [type : {"WebSocketDisconnected"}, status : {"NoGap"},
              reached_retry_limit : BOOLEAN]

\* Strategy::is_trading_ready(): the three books and the two warmup queries
Strategy_is_trading_ready(bs, ws) == bs = Books /\ ws = PositionManagers

\* Strategy::handle_position_recon(data): the venues cancelAll() is called on
\* and whether Signal::running is still set afterwards.  The body is empty.
handle_position_recon(data, calls, run) == [calls |-> calls, running |-> run]

\* Strategy::handle_ws_disconnected(data).  The body is empty.
handle_ws_disconnected(data, calls, run) == [calls |-> calls, running |-> run]

\* the process after main() constructed Signal and Strategy: the connectors
\* are started, the warmup queries are done (ws names those that succeeded)
InitSTState(ws) ==
    /\ spos = "outer"
    /\ running = TRUE
    /\ pipe = 0
    /\ eintr = FALSE
    /\ is_trading_ready = FALSE
    /\ is_trading_initialized = FALSE
    /\ books = {}
    /\ warmup = ws
    /\ elapsed = 0
    /\ tradingStarted = FALSE
    /\ readyAtStart = FALSE
    /\ submitted = <<>>
    /\ handledEvents = <<>>
    /\ cancelAllCalls = {}
    /\ nSignals = 0
    /\ nSubmitted = 0

InitST == \E ws \in SUBSET PositionManagers : InitSTState(ws)

\* a market-data connector received its first book (its own thread)
BookReady(b) ==
    /\ b \notin books
    /\ books' = books \cup {b}
    /\ UNCHANGED <<spos, running, pipe, eintr, is_trading_ready, is_trading_initialized, warmup,
                   elapsed, tradingStarted, readyAtStart, submitted, handledEvents,
                   cancelAllCalls, nSignals, nSubmitted>>
    /\ UNCHANGED <<eqVars, omVars, pmVars, hgVars, wsVars, libVars>>

\* Signal::signalHandler -> stop(): running = false and one byte written to
\* the pipe.  onMain: the handler ran on the main thread; an epoll_wait it
\* interrupts returns -1 (EINTR).
SignalReceived(onMain) ==
    /\ nSignals < MaxSignals
    /\ nSignals' = nSignals + 1
    /\ running' = FALSE
    /\ pipe' = pipe + 1
    /\ eintr' = (eintr \/ (onMain /\ spos \in {"epollWait", "epollRun"}))
    /\ UNCHANGED <<spos, is_trading_ready, is_trading_initialized, books, warmup, elapsed,
                   tradingStarted, readyAtStart, submitted, handledEvents, cancelAllCalls,
                   nSubmitted>>
    /\ UNCHANGED <<eqVars, omVars, pmVars, hgVars, wsVars, libVars>>

\* handleStrategy: while(isRunning()) and the test of the inner while
HsOuter ==
    /\ spos = "outer"
    /\ spos' = IF ~running THEN "returned"
               ELSE IF ~is_trading_ready THEN "check" ELSE "init"
    /\ UNCHANGED <<running, pipe, eintr, is_trading_ready, is_trading_initialized, books, warmup,
                   elapsed, tradingStarted, readyAtStart, submitted, handledEvents,
                   cancelAllCalls, nSignals, nSubmitted>>
    /\ UNCHANGED <<eqVars, omVars, pmVars, hgVars, wsVars, libVars>>

\* handleStrategy, inner loop: is_trading_ready = strategy.is_trading_ready()
HsCheck ==
    /\ spos = "check"
    /\ is_trading_ready' = Strategy_is_trading_ready(books, warmup)
    /\ spos' = IF is_trading_ready' THEN "init" ELSE "epollWait"
    /\ UNCHANGED <<running, pipe, eintr, is_trading_initialized, books, warmup, elapsed,
                   tradingStarted, readyAtStart, submitted, handledEvents, cancelAllCalls,
                   nSignals, nSubmitted>>
    /\ UNCHANGED <<eqVars, omVars, pmVars, hgVars, wsVars, libVars>>

\* handleStrategy, inner loop: epoll_wait returned.  -1: return; an event:
\* the byte is read and the inner loop is left with break; 0: go on
HsEpollWait ==
    /\ spos = "epollWait"
    /\ IF eintr
       THEN /\ spos' = "returned"
            /\ eintr' = FALSE
            /\ UNCHANGED pipe
       ELSE IF pipe > 0
            THEN /\ spos' = "init"
                 /\ pipe' = pipe - 1
                 /\ UNCHANGED eintr
            ELSE /\ spos' = "timeout"
                 /\ UNCHANGED <<pipe, eintr>>
    /\ UNCHANGED <<running, is_trading_ready, is_trading_initialized, books, warmup, elapsed,
                   tradingStarted, readyAtStart, submitted, handledEvents, cancelAllCalls,
                   nSignals, nSubmitted>>
    /\ UNCHANGED <<eqVars, omVars, pmVars, hgVars, wsVars, libVars>>

\* handleStrategy, inner loop: the timeout test (it throws) and the sleep
HsTimeout ==
    /\ spos = "timeout"
    /\ elapsed' = elapsed + 1
    /\ spos' = IF elapsed' >= TimeoutRounds THEN "thrown" ELSE "check"
    /\ UNCHANGED <<running, pipe, eintr, is_trading_ready, is_trading_initialized, books, warmup,
                   tradingStarted, readyAtStart, submitted, handledEvents, cancelAllCalls,
                   nSignals, nSubmitted>>
    /\ UNCHANGED <<eqVars, omVars, pmVars, hgVars, wsVars, libVars>>

\* handleStrategy after the inner loop: initialize_trading() and
\* start_trading() unless is_trading_initialized, then if(!isRunning()) break
HsInit ==
    /\ spos = "init"
    /\ IF ~is_trading_initialized
       THEN /\ tradingStarted' = TRUE
            /\ readyAtStart' = is_trading_ready
            /\ is_trading_initialized' = TRUE
       ELSE UNCHANGED <<tradingStarted, readyAtStart, is_trading_initialized>>
    /\ spos' = IF ~running THEN "returned" ELSE "epollRun"
    /\ UNCHANGED <<running, pipe, eintr, is_trading_ready, books, warmup, elapsed, submitted,
                   handledEvents, cancelAllCalls, nSignals, nSubmitted>>
    /\ UNCHANGED <<eqVars, omVars, pmVars, hgVars, wsVars, libVars>>

\* handleStrategy, outer loop: epoll_wait returned.  -1 or an event: break
HsEpollRun ==
    /\ spos = "epollRun"
    /\ IF eintr
       THEN /\ spos' = "returned"
            /\ eintr' = FALSE
            /\ UNCHANGED pipe
       ELSE IF pipe > 0
            THEN /\ spos' = "returned"
                 /\ pipe' = pipe - 1
                 /\ UNCHANGED eintr
            ELSE /\ spos' = "outer"
                 /\ UNCHANGED <<pipe, eintr>>
    /\ UNCHANGED <<running, is_trading_ready, is_trading_initialized, books, warmup, elapsed,
                   tradingStarted, readyAtStart, submitted, handledEvents, cancelAllCalls,
                   nSignals, nSubmitted>>
    /\ UNCHANGED <<eqVars, omVars, pmVars, hgVars, wsVars, libVars>>

\* CallbackAdapter::create_position_recon_callback and
\* create_ws_disconnected_callback: a manager's or connector's thread submits
\* an event (the callbacks are installed by initialize_trading)
SubmitStrategyEvent(e) ==
    /\ tradingStarted
    /\ spos \notin {"returned", "thrown"}
    /\ nSubmitted < MaxStrategyEvents
    /\ nSubmitted' = nSubmitted + 1
    /\ submitted' = Append(submitted, e)
    /\ UNCHANGED <<spos, running, pipe, eintr, is_trading_ready, is_trading_initialized, books,
                   warmup, elapsed, tradingStarted, readyAtStart, handledEvents, cancelAllCalls,
                   nSignals>>
    /\ UNCHANGED <<eqVars, omVars, pmVars, hgVars, wsVars, libVars>>

\* EventProcessor::handle_event for a PositionRecon or WebSocketDisconnected
\* event (the processor thread, started by start_trading)
HandleStrategyEvent ==
    /\ tradingStarted
    /\ submitted # <<>>
    /\ LET e == Head(submitted)
           r == IF e.type = "PositionRecon"
                THEN handle_position_recon(e, cancelAllCalls, running)
                ELSE handle_ws_disconnected(e, cancelAllCalls, running)
       IN /\ cancelAllCalls' = r.calls
          /\ running' = r.running
          /\ handledEvents' = Append(handledEvents, e)
    /\ submitted' = Tail(submitted)
    /\ UNCHANGED <<spos, pipe, eintr, is_trading_ready, is_trading_initialized, books, warmup,
                   elapsed, tradingStarted, readyAtStart, nSignals, nSubmitted>>
    /\ UNCHANGED <<eqVars, omVars, pmVars, hgVars, wsVars, libVars>>

NextST ==
    \/ \E b \in Books : BookReady(b)
    \/ \E onMain \in BOOLEAN : SignalReceived(onMain)
    \/ HsOuter
    \/ HsCheck
    \/ HsEpollWait
    \/ HsTimeout
    \/ HsInit
    \/ HsEpollRun
    \/ \E e \in StrategyEvents : SubmitStrategyEvent(e)
    \/ HandleStrategyEvent

-----------------------------------------------------------------------------
(* Part VII: the target-order ladder *)

\* config.price_tick_size, in price units (half ticks)
PriceTickSize == 2

\* config.ticks_from_touch and config.ticks_from_postable
TicksFromTouch == 1

TicksFromPostable == 0

\* order_configs_.size()
NumTargets == 3

\* largest base_price * price_offset of an order configuration, in price units
MaxOffset == 3

\* quote_mid of the refreshes followed, in price units
QuoteMid == 20

Sides == {"ask", "bid"}

\* the best ask and best bid of the quote book at a refresh
LocalTouches == {<<22, 18>>, <<24, 18>>, <<24, 22>>}

\* Side::add_away
add_away(side, base_price, price_offset) ==
    IF side = "ask" THEN base_price + price_offset ELSE base_price - price_offset

\* Side::is_inner
is_inner(side, price_check, price_reference) ==
    IF side = "ask" THEN price_check < price_reference ELSE price_check > price_reference

\* PriceRounder::round_price<SideType> over BaseRounder::round_up, round_down
\* and round_nearest; prices are positive
round_price(side, mode, price) ==
    LET down == (price \div PriceTickSize) * PriceTickSize
        up == IF down = price THEN price ELSE down + PriceTickSize
    IN CASE mode = "inner" -> IF side = "bid" THEN up ELSE down
         [] mode = "away" -> IF side = "bid" THEN down ELSE up
         [] OTHER -> IF 2 * (price - down) >= PriceTickSize THEN up ELSE down

\* a shifter that leaves the prices after the first where they are
ShiftFollowingIdentityMutant(side, ps, i) == ps

RECURSIVE ShiftFollowing(_, _, _)
\* the loop both shifters end with: from index i on, a price that is not away
\* from its predecessor is put one tick away from it
ShiftFollowing(side, ps, i) ==
    IF i > Len(ps) THEN ps
    ELSE ShiftFollowing(side,
                        [ps EXCEPT ![i] = IF is_inner(side, @, ps[i - 1]) \/ @ = ps[i - 1]
                                          THEN add_away(side, ps[i - 1], PriceTickSize)
                                          ELSE @],
                        i + 1)

\* TouchPriceShifter::shift<SideType>(prices, market_price)
TouchPriceShift(side, ps, market_price) ==
    IF ps = <<>> THEN ps
    ELSE ShiftFollowing(side,
                        [ps EXCEPT ![1] = IF is_inner(side, @, market_price)
                                          THEN add_away(side, market_price,
                                                        TicksFromTouch * PriceTickSize)
                                          ELSE @],
                        2)

\* PostablePriceShifter::shift<SideType>(prices, market_opposite_price)
PostablePriceShift(side, ps, market_opposite_price) ==
    IF ps = <<>> THEN ps
    ELSE ShiftFollowing(side,
                        [ps EXCEPT ![1] = IF is_inner(side, @, market_opposite_price)
                                             \/ @ = market_opposite_price
                                          THEN add_away(side, market_opposite_price,
                                                        (1 + TicksFromPostable) * PriceTickSize)
                                          ELSE @],
                        2)

RECURSIVE EmplaceOrders(_, _, _)
\* target_orders.emplace(prices_[i], ...) for i, i + 1, ...: the map's
\* comparator takes two keys less than a tick apart for the same key, and
\* emplace leaves the map alone when the key is there.  sizes_[i] is i.
EmplaceOrders(orders, ps, i) ==
    IF i > Len(ps) THEN orders
    ELSE EmplaceOrders(IF \E o \in orders : Abs(o.price - ps[i]) < PriceTickSize
                       THEN orders
                       ELSE orders \cup {[price |-> ps[i], size |-> i, index |-> i]},
                       ps, i + 1)

\* the configurations followed: every ladder of NumTargets offsets, every
\* rounding mode, the shifters on or off
TargetConfigs ==
    [offsets : [1..NumTargets -> 1..MaxOffset],
     price_round_mode : {"inner", "away", "nearest"},
     enable_touch_price : BOOLEAN,
     enable_postable_price : BOOLEAN]

\* the manager after construction
InitTO(cfg) ==
    /\ config_ = cfg
    /\ is_dirty_ = [s \in Sides |-> TRUE]
    /\ prices_ = [i \in 1..NumTargets |-> 0]
    /\ target_orders_ = [s \in Sides |-> {}]
    /\ lastRefresh = [done |-> FALSE, side |-> "ask", anchored |-> FALSE, market |-> 0]

\* set_dirty<SideType>() and set_clean<SideType>()
set_dirty(side, dirty) ==
    /\ is_dirty_[side] # dirty
    /\ is_dirty_' = [is_dirty_ EXCEPT ![side] = dirty]
    /\ UNCHANGED <<config_, prices_, target_orders_, lastRefresh>>
    /\ UNCHANGED <<coreVars, bkVars, tbVars, mdVars>>

\* refresh_target_orders<SideType>() with offset_base Mid; touch is the quote
\* book's best ask and best bid
refresh_target_orders(side, touch) ==
    IF ~is_dirty_[side]
    THEN UNCHANGED vars
    ELSE LET local_ask == touch[1]
             local_bid == touch[2]
             initial == [i \in 1..NumTargets |->
                            round_price(side, config_.price_round_mode,
                                        add_away(side, QuoteMid, config_.offsets[i]))]
             market_price == IF side = "ask" THEN local_ask ELSE local_bid
             market_opposite_price == IF side = "ask" THEN local_bid ELSE local_ask
             touched == IF config_.enable_touch_price
                        THEN TouchPriceShift(side, initial, market_price)
                        ELSE initial
             posted == IF config_.enable_postable_price
                       THEN PostablePriceShift(side, touched, market_opposite_price)
                       ELSE touched
         IN /\ prices_' = posted
            /\ target_orders_' = [target_orders_ EXCEPT ![side] = EmplaceOrders({}, posted, 1)]
            /\ lastRefresh' = [done |-> TRUE, side |-> side,
                               anchored |-> config_.enable_touch_price
                                               /\ is_inner(side, initial[1], market_price),
                               market |-> market_price]
            /\ UNCHANGED <<config_, is_dirty_>>
            /\ UNCHANGED <<coreVars, bkVars, tbVars, mdVars>>

NextTO ==
    \/ \E side \in Sides, dirty \in BOOLEAN : set_dirty(side, dirty)
    \/ \E side \in Sides, touch \in LocalTouches : refresh_target_orders(side, touch)

-----------------------------------------------------------------------------
(* Part VIII: one side of a book *)

\* MAX_LEVELS, scaled down
MaxLevels == 3

\* PRICE_EPSILON, in the unit of prices and quantities
PriceEpsilon == 2

\* largest price and largest quantity of an update
MaxBookPrice == 7

MaxBookQuantity == 4

\* std::abs(a - b) < PRICE_EPSILON
WithinEpsilon(a, b) == Abs(a - b) < PriceEpsilon

\* a search that knows no epsilon: only the very price is found
findIndexExactMutant(lv, descending, price, left, right) ==
    IF \E i \in 1..Len(lv) : lv[i].price = price
    THEN (CHOOSE i \in 1..Len(lv) : lv[i].price = price) - 1
    ELSE Cardinality({i \in 1..Len(lv) :
                         IF descending THEN lv[i].price > price ELSE lv[i].price < price})

RECURSIVE findIndex(_, _, _, _, _)
\* PriceLevelArray::findIndex(price): the while loop from (left, right); the
\* indices are the code's, from 0
findIndex(lv, descending, price, left, right) ==
    IF left > right THEN left
    ELSE LET mid == left + ((right - left) \div 2)
             midPrice == lv[mid + 1].price
         IN IF WithinEpsilon(midPrice, price) THEN mid
            ELSE IF (IF descending THEN midPrice > price ELSE midPrice < price)
                 THEN findIndex(lv, descending, price, mid + 1, right)
                 ELSE findIndex(lv, descending, price, left, mid - 1)

\* the array after the memmove that closes the gap at index (from 0)
RemoveAt(lv, index) ==
    [i \in 1..(Len(lv) - 1) |-> IF i <= index THEN lv[i] ELSE lv[i + 1]]

\* the array after the memmove that opens a gap at index (from 0) and the
\* two stores into it
PutAt(lv, index, level) ==
    [i \in 1..(Len(lv) + 1) |->
        IF i <= index THEN lv[i] ELSE IF i = index + 1 THEN level ELSE lv[i - 1]]

\* PriceLevelArray(descending): size 0
InitBK(descending) ==
    /\ levels = <<>>
    /\ isDescending = descending
    /\ lastBookOp = [op |-> "none", price |-> 0, quantity |-> 0, found |-> FALSE, size |-> 0]

\* PriceLevelArray::insert(price, quantity)
insert(price, quantity) ==
    LET index == findIndex(levels, isDescending, price, 0, Len(levels) - 1)
        found == index < Len(levels) /\ WithinEpsilon(levels[index + 1].price, price)
    IN /\ levels' =
              IF found
              THEN IF quantity <= PriceEpsilon
                   THEN RemoveAt(levels, index)
                   ELSE [levels EXCEPT ![index + 1].quantity = quantity]
              ELSE IF quantity > PriceEpsilon /\ Len(levels) < MaxLevels
                   THEN PutAt(levels, index, [price |-> price, quantity |-> quantity])
                   ELSE levels
       /\ lastBookOp' = [op |-> "insert", price |-> price, quantity |-> quantity,
                         found |-> found, size |-> Len(levels)]
       /\ UNCHANGED isDescending
       /\ UNCHANGED <<coreVars, toVars, tbVars, mdVars>>

\* PriceLevelArray::eraseAt(index)
eraseAt(index) ==
    /\ levels' = IF index >= Len(levels) THEN levels ELSE RemoveAt(levels, index)
    /\ lastBookOp' = [op |-> "eraseAt", price |-> 0, quantity |-> 0,
                      found |-> index < Len(levels), size |-> Len(levels)]
    /\ UNCHANGED isDescending
    /\ UNCHANGED <<coreVars, toVars, tbVars, mdVars>>

\* PriceLevelArray::erase(price)
erase(price) ==
    LET index == findIndex(levels, isDescending, price, 0, Len(levels) - 1)
        found == index < Len(levels) /\ WithinEpsilon(levels[index + 1].price, price)
    IN /\ levels' = IF found THEN RemoveAt(levels, index) ELSE levels
       /\ lastBookOp' = [op |-> "erase", price |-> price, quantity |-> 0,
                         found |-> found, size |-> Len(levels)]
       /\ UNCHANGED isDescending
       /\ UNCHANGED <<coreVars, toVars, tbVars, mdVars>>

NextBK ==
    \/ \E price \in 0..MaxBookPrice, quantity \in 0..MaxBookQuantity : insert(price, quantity)
    \/ \E index \in 0..MaxLevels : eraseAt(index)
    \/ \E price \in 0..MaxBookPrice : erase(price)

-----------------------------------------------------------------------------
(* Part IX: the token bucket *)

\* the latest time point of a call, and the largest step between two calls
MaxTime == 8

MaxTimeStep == 3

\* the limiters followed: max_actions and time_window are validated positive,
\* cooldown_duration is not validated
LimiterConfigs ==
    [max_tokens : 1..2, time_window : 2..3, cooldown_duration : {0, 3}]

\* a timer that is never in cooldown
is_in_cooldownNeverMutant(end_time, now) == FALSE

\* CooldownTimer::is_in_cooldown(now)
is_in_cooldown(end_time, now) == end_time.has_value /\ now < end_time.at

\* TokenBucketRateLimiter::refill_tokens(now): tokens_ and last_refill_time_
\* afterwards.  tokens_to_add >= 1.0 is elapsed * max_tokens_ >= time_window_ (elapsed is sinceRefill),
\* and static_cast<int> drops the fraction of the quotient; the time points
\* followed keep the quotient far inside the range of int.
refill_tokens(now) ==
    LET sinceRefill == now - last_refill_time_
        whole == (sinceRefill * limiter.max_tokens) \div limiter.time_window
    IN IF is_in_cooldown(cooldown_end_time_, now)
          \/ sinceRefill * limiter.max_tokens < limiter.time_window
       THEN [tokens |-> tokens_, last |-> last_refill_time_]
       ELSE [tokens |-> IF tokens_ + whole < limiter.max_tokens
                        THEN tokens_ + whole ELSE limiter.max_tokens,
             last |-> now]

\* TokenBucketRateLimiter(max_actions, time_window, cooldown_duration) at time 0
InitTB(cfg) ==
    /\ limiter = cfg
    /\ tokens_ = cfg.max_tokens
    /\ last_refill_time_ = 0
    /\ cooldown_end_time_ = [has_value |-> FALSE, at |-> 0]
    /\ callTime = 0
    /\ consumed = FALSE

\* try_consume(now) with now = callTime + step, on_rate_limit_hit(now) and
\* CooldownTimer::start_cooldown(now) included
try_consume(step) ==
    LET now == callTime + step
        filled == refill_tokens(now)
    IN /\ now <= MaxTime
       /\ callTime' = now
       /\ IF is_in_cooldown(cooldown_end_time_, now)
          THEN /\ consumed' = FALSE
               /\ UNCHANGED <<tokens_, last_refill_time_, cooldown_end_time_>>
          ELSE IF filled.tokens >= 1
               THEN /\ tokens_' = filled.tokens - 1
                    /\ last_refill_time_' = filled.last
                    /\ consumed' = TRUE
                    /\ UNCHANGED cooldown_end_time_
               ELSE /\ cooldown_end_time_' =
                          IF is_in_cooldown(cooldown_end_time_, now)
                          THEN cooldown_end_time_
                          ELSE [has_value |-> TRUE, at |-> now + limiter.cooldown_duration]
                    /\ tokens_' = 0
                    /\ last_refill_time_' = filled.last
                    /\ consumed' = FALSE
       /\ UNCHANGED limiter
       /\ UNCHANGED <<coreVars, toVars, bkVars, mdVars>>

NextTB == \E step \in 0..MaxTimeStep : try_consume(step)

-----------------------------------------------------------------------------
(* Part X: a market-data connector *)

\* frames and closes followed
MaxMdFrames == 6

MaxMdCloses == 2

Connectors == {"binance", "okx", "bybit"}

\* the connector after construction: cnt = 0, m_bookWarmedUp = false
InitMD(c) ==
    /\ connector = c
    /\ m_bookWarmedUp = FALSE
    /\ cnt = 0
    /\ mdOpen = FALSE
    /\ framesOnConnection = 0
    /\ nMdFrames = 0
    /\ nMdCloses = 0

\* onOpen(hdl): the channel of the connector is open (again); the handlers
\* subscribe and touch neither cnt nor m_bookWarmedUp
MarketDataOnOpen ==
    /\ ~mdOpen
    /\ mdOpen' = TRUE
    /\ framesOnConnection' = 0
    /\ UNCHANGED <<connector, m_bookWarmedUp, cnt, nMdFrames, nMdCloses>>
    /\ UNCHANGED <<coreVars, toVars, bkVars, tbVars>>

\* onMessage(hdl, msg); pong tells an OKX heartbeat answer from a book frame
MarketDataOnMessage(pong) ==
    /\ mdOpen
    /\ nMdFrames < MaxMdFrames
    /\ nMdFrames' = nMdFrames + 1
    /\ framesOnConnection' = framesOnConnection + 1
    /\ CASE connector = "binance" ->
               /\ cnt' = cnt + 1
               /\ m_bookWarmedUp' = IF cnt + 1 <= 2 THEN m_bookWarmedUp ELSE TRUE
         [] connector = "okx" ->
               /\ cnt' = cnt + 1
               /\ m_bookWarmedUp' = IF cnt + 1 = 1 \/ pong THEN m_bookWarmedUp ELSE TRUE
         [] OTHER ->
               /\ cnt' = cnt
               /\ m_bookWarmedUp' = TRUE
    /\ UNCHANGED <<connector, mdOpen, nMdCloses>>
    /\ UNCHANGED <<coreVars, toVars, bkVars, tbVars>>

\* onClose(hdl, message)
MarketDataOnClose ==
    /\ mdOpen
    /\ nMdCloses < MaxMdCloses
    /\ nMdCloses' = nMdCloses + 1
    /\ mdOpen' = FALSE
    /\ CASE connector = "binance" -> UNCHANGED <<m_bookWarmedUp, cnt>>
         [] connector = "okx" -> m_bookWarmedUp' = FALSE /\ cnt' = 0
         [] OTHER -> m_bookWarmedUp' = FALSE /\ UNCHANGED cnt
    /\ UNCHANGED <<connector, framesOnConnection, nMdFrames>>
    /\ UNCHANGED <<coreVars, toVars, bkVars, tbVars>>

NextMD ==
    \/ MarketDataOnOpen
    \/ \E pong \in BOOLEAN : MarketDataOnMessage(pong)
    \/ MarketDataOnClose

-----------------------------------------------------------------------------
(* The specifications *)

\* the parts after Part II as constructed
\* a channel of the model that is left alone is an order router
IdleWS == kind = "router" /\ InitWSState

\* the lifecycle before anything happened, both warmup queries done
IdleST == InitSTState(PositionManagers)

\* a ladder of three different offsets, both shifters on
IdleTO ==
    InitTO([offsets |-> <<1, 2, 3>>, price_round_mode |-> "nearest",
            enable_touch_price |-> TRUE, enable_postable_price |-> TRUE])

\* the classes of their own as constructed
\* one action a time unit, no cooldown
IdleTB == InitTB([max_tokens |-> 1, time_window |-> 2, cooldown_duration |-> 0])

IdleLib == IdleTO /\ InitBK(FALSE) /\ IdleTB /\ InitMD("okx")

\* Parts I to VI as constructed
IdleCore ==
    /\ InitEQ
    /\ venue = "bybit"
    /\ InitOMState
    /\ InitPMState(0, DefaultIntervals)
    /\ InitHG
    /\ IdleWS
    /\ IdleST

InitRest == InitPMState(0, DefaultIntervals) /\ InitHG /\ IdleWS /\ IdleST /\ IdleLib

\* the event queue alone: the other parts are left as constructed
InitQueue ==
    /\ InitEQ
    /\ venue = "bybit"
    /\ InitOMState
    /\ InitRest

\* one venue's order manager alone: the other parts are left as constructed
InitOrders ==
    /\ InitEQ
    /\ InitOM
    /\ InitRest

\* one venue's position manager alone
InitPositions ==
    /\ InitEQ
    /\ InitOM
    /\ InitPM
    /\ InitHG
    /\ IdleWS
    /\ IdleST
    /\ IdleLib

\* the hedger alone
InitHedger ==
    /\ InitEQ
    /\ venue = "okx"
    /\ InitOMState
    /\ InitRest

SpecEQ == InitQueue /\ [][NextEQ]_vars

SpecOM == InitOrders /\ [][NextOM]_vars

SpecPM == InitPositions /\ [][NextPM]_vars

\* number of calls and of inbound frames followed where orders are evicted
MaxEvictionOps == 3

MaxEvictionFrames == 3

\* the Bybit order manager alone, followed further
InitEviction ==
    /\ InitEQ
    /\ venue = "bybit"
    /\ InitOMWith([ops |-> MaxEvictionOps, frames |-> MaxEvictionFrames])
    /\ InitRest

\* placements and amends whose sends succeed, the venue's responses, and its
\* execution frames
NextEV ==
    \/ WsReady
    \/ \E buy \in BOOLEAN, t \in Ids : PlaceOrder(buy, TRUE, t)
    \/ \E id \in Ids, t \in Ids : ModifyOrder(id, TRUE, t)
    \/ \E req \in 1..MaxEvictionOps, resp \in BybitResponses : BybitResponse(req, resp)
    \/ \E id \in Ids, fillSz \in 1..MaxFill, leavesZero \in BOOLEAN :
           BybitExecutionFrame(id, fillSz, leavesZero)

SpecEV == InitEviction /\ [][NextEV]_vars

\* one websocket channel alone
InitChannel ==
    /\ InitEQ
    /\ venue = "bybit"
    /\ InitOMState
    /\ InitPMState(0, DefaultIntervals)
    /\ InitHG
    /\ InitWS
    /\ IdleST
    /\ IdleLib

SpecHG == InitHedger /\ [][NextHG]_vars

SpecWS == InitChannel /\ [][NextWS]_vars

\* the process lifecycle alone
InitLifecycle ==
    /\ InitEQ
    /\ venue = "bybit"
    /\ InitOMState
    /\ InitPMState(0, DefaultIntervals)
    /\ InitHG
    /\ IdleWS
    /\ InitST
    /\ IdleLib

SpecST == InitLifecycle /\ [][NextST]_vars

\* the target-order manager alone, under every configuration followed
InitLadder == IdleCore /\ InitBK(FALSE) /\ IdleTB /\ InitMD("okx") /\ \E cfg \in TargetConfigs : InitTO(cfg)

SpecTO == InitLadder /\ [][NextTO]_vars

\* one side of a book alone: the bid side (descending) or the ask side
InitBookSide == IdleCore /\ IdleTO /\ IdleTB /\ InitMD("okx") /\ \E descending \in BOOLEAN : InitBK(descending)

SpecBK == InitBookSide /\ [][NextBK]_vars

\* the rate limiter alone, under every configuration followed
InitLimiter == IdleCore /\ IdleTO /\ InitBK(FALSE) /\ InitMD("okx") /\ \E cfg \in LimiterConfigs : InitTB(cfg)

SpecTB == InitLimiter /\ [][NextTB]_vars

\* one market-data connector alone, each of the three
InitMarketData == IdleCore /\ IdleTO /\ InitBK(FALSE) /\ IdleTB /\ \E c \in Connectors : InitMD(c)

SpecMD == InitMarketData /\ [][NextMD]_vars

-----------------------------------------------------------------------------
(* Part I: claims *)

\* The events whose handler has been entered, the one in progress included
StartedEvents == IF cur = NoEvent THEN handled ELSE Append(handled, cur)

HandledIdSet == {handled[i].id : i \in 1..Len(handled)}

\* C1: events are handled one at a time, in exactly the order in which push
\* appended them: the sequence of events whose handler was entered is always a
\* prefix of the append order (hence per-producer order is kept and no event is
\* handled twice); the single consumer holds at most one event at a time.
C1_HandledInAppendOrder ==
    /\ Len(StartedEvents) <= Len(appended)
    /\ \A i \in 1..Len(StartedEvents) : StartedEvents[i].id = appended[i]

\* C1 witness: three events of two interleaved producers have been handled
C1_Witness ==
    /\ Len(handled) >= 3
    /\ handled[1].id[1] # handled[2].id[1]
    /\ handled[2].id[1] # handled[3].id[1]

\* C3 (as claimed): when the consumer has returned, the shutdown flag is set and
\* every event that was in the queue when stop() set the flag has been handled.
C3_DrainedBeforeExit ==
    cpc = "done" => (~running_ /\ queuedAtStop \subseteq HandledIdSet)

\* C4 (as claimed): no event submitted after stop() set the flag is ever handled.
C4_NoPostStopEventHandled ==
    \A i \in 1..Len(StartedEvents) : ~StartedEvents[i].afterStop

\* C4 (amended): after the flag is set the consumer pops at most one more event,
\* so at most one event submitted after stop() is handled.
C4_AtMostOnePopAfterStop ==
    Cardinality({i \in 1..Len(StartedEvents) : StartedEvents[i].poppedAfterStop}) <= 1

\* C4 witness: an event submitted after the flag was set has been handled
C4_Witness ==
    \E i \in 1..Len(handled) : handled[i].afterStop /\ handled[i].poppedAfterStop

\* C5 (as claimed): a handler that throws does not terminate the consumer.
C5_ConsumerSurvivesHandlerError ==
    (\E i \in 1..Len(handled) : HandlerThrows(handled[i])) => cpc # "terminated"

-----------------------------------------------------------------------------
(* Part II: claims *)

Operations == {"placeOrder", "cancelOrder", "modifyOrder"}

StatusFrames == {"orderFrame", "executionFrame", "channelFrame"}

OrderState == <<handlers, orderMap, reqId_to_orderHandler, cancelQueue, filledQueue, rejectedQueue>>

\* C2 (as claimed): every step that writes an order handler, the order map, the
\* request-id map or a retention queue is taken by the dispatcher thread.
C2_OnlyDispatcherWrites ==
    [][OrderState' # OrderState => last'.thread = "dispatcher"]_vars

\* C6 (as claimed): an operation called while the websocket is not ready sends
\* nothing, invokes the callback with REJECTED / WS_FAILURE and returns 0.
C6_NotReadyReturnsZero ==
    (last.op \in Operations /\ ~last.ready) =>
        (~last.sent /\ last.cb = WsFailure /\ last.ret = 0)

\* C7 (as claimed): an operation that found the websocket not ready, or whose
\* send failed, leaves the order map and the request-id map as they were.
C7_FailedOperationAddsNoEntry ==
    [][(nOps' # nOps /\ (~last'.ready \/ ~last'.sendOk)) =>
           (orderMap' = orderMap /\ reqId_to_orderHandler' = reqId_to_orderHandler)]_vars

\* C8 (as claimed): a response that carries the request-id the previous response
\* carried changes no order handler, no map and no queue.
C8_RepeatedResponseChangesNothing ==
    [][(nFrames' # nFrames /\ last.op = "response" /\ last'.op = "response"
            /\ last'.req = last.req) =>
           OrderState' = OrderState]_vars

\* the codes and messages the venue's table lists
ListedCode(code) ==
    IF venue = "bybit"
    THEN \/ code[1] = 10001 /\ code[2] \in {"Qty invalid", "order not modified", "Illegal category"}
         \/ code[1] \in {110001, 110019, 110008, 110010, 110003, 110094, 110004, 110012,
                         110052, 110007, 110020, 110079, 10006, 10016, 10019, 10429,
                         33004, 10003}
    ELSE code[2] \in {"50018", "51008", "51503", "50011", "51006", "51400", "51121",
                      "50001", "50005", "50007", "50013", "50033", "50038", "50052",
                      "50101"}

TableReason(code) ==
    IF ~ListedCode(code) THEN "UNKNOWN_ERROR"
    ELSE IF venue = "bybit" THEN BybitRejectReason(code[1], code[2], "NONE")
    ELSE OkxRejectReason(code[2])

\* C9 (as claimed): after a reject response for a correlated request the handler
\* is REJECTED with the reason the table assigns to the code, UNKNOWN_ERROR for
\* an unlisted code or message, and never NONE.
C9_RejectSetsTableReason ==
    (last.op = "response" /\ last.cb # NoCallback) =>
        /\ last.cb[1] = "REJECTED"
        /\ last.cb[2] = TableReason(last.code)
        /\ last.cb[2] # "NONE"

\* a status or execution frame for an unknown id changes nothing
UnknownFrameChangesNothing ==
    (nFrames' # nFrames /\ last'.op \in StatusFrames /\ ~last'.known) =>
        (OrderState' = OrderState /\ m_currentPosition' = m_currentPosition)

Members(q) == {q[i] : i \in 1..Len(q)}

TerminalStatus == {"CANCELED", "REJECTED", "FILLED"}

\* the retention queue that matches a terminal status, of the three given
MatchingQueue(status, cq, fq, rq) ==
    CASE status = "CANCELED" -> cq
      [] status = "FILLED" -> fq
      [] OTHER -> rq

\* C11 (as claimed): when a response or frame makes an order's status CANCELED,
\* REJECTED or FILLED, the order's client-order-id is a member of the matching
\* retention queue when that step is over.
C11_TerminalStatusIsQueued ==
    [][nFrames' # nFrames =>
           \A i \in 1..Len(handlers) :
               (handlers'[i].status # handlers[i].status
                    /\ handlers'[i].status \in TerminalStatus) =>
                   handlers'[i].clOrdId \in
                       Members(MatchingQueue(handlers'[i].status, cancelQueue',
                                             filledQueue', rejectedQueue'))]_vars

IsSuffix(s, t) == Len(s) <= Len(t) /\ s = SubSeq(t, Len(t) - Len(s) + 1, Len(t))

\* what a queue can be once a step has pushed onto it: itself, or itself with
\* one id appended
AfterPush(q) == {q} \cup {Append(q, id) : id \in 0..MaxClock}

\* a step takes queue q to qAfter by pushing at most one id and then popping
\* from the head down to NumberOfOrdersToTrack ids, and no popped id is a key of
\* the order map afterwards
EvictsOldestFirst(q, qAfter, mapAfter) ==
    \E p \in AfterPush(q) :
        /\ IsSuffix(qAfter, p)
        /\ Len(qAfter) = IF Len(p) > NumberOfOrdersToTrack THEN NumberOfOrdersToTrack
                         ELSE Len(p)
        /\ \A i \in 1..(Len(p) - Len(qAfter)) : p[i] \notin DOMAIN mapAfter

C13_QueuesDisjoint ==
    /\ Members(cancelQueue) \cap Members(filledQueue) = {}
    /\ Members(cancelQueue) \cap Members(rejectedQueue) = {}
    /\ Members(filledQueue) \cap Members(rejectedQueue) = {}

\* C14 (as claimed): the current position is the position of the last successful
\* reconciliation plus the signed sum of the fills observed since that
\* reconciliation queried the venue; a fill that update_position_by_fillsz
\* applies while a cycle is between its load and its store is neither lost
\* nor counted twice.
C14_PositionIsBasePlusObservedFills ==
    m_currentPosition = reconciledPosition + observedFills

\* the quantity still open on the in-flight orders of one side: submitted minus filled
OpenQuantity(orders, buy) ==
    SumOver([i \in 1..Len(orders) |->
                 IF orders[i].side = buy /\ orders[i].status \in InFlightStatus
                 THEN orders[i].qtySubmitted - orders[i].cumFilled ELSE 0],
            1..Len(orders))

\* C15 (as claimed): when hedge() submits an order, its size plus the quantity
\* still open on the in-flight hedge orders of the same side does not exceed
\* the absolute total exposure at that moment.
C15_NeverDoubleHedges ==
    [][Len(hedgeOrders') > Len(hedgeOrders) =>
           LET new == hedgeOrders'[Len(hedgeOrders')]
           IN new.qtySubmitted + OpenQuantity(hedgeOrders, new.side)
                  <= Abs(quotePosition + hedgePosition)]_vars

\* the unhedged part of the claim: the absolute exposure minus the remaining
\* quantity of the in-flight orders on the reducing side, floored at 0
UnhedgedPart(exposure, orders) ==
    LET open == OpenQuantity(orders, ~(exposure > 0))
    IN IF Abs(exposure) > open THEN Abs(exposure) - open ELSE 0

\* C16 (as claimed): a hedge() call submits a market order only when the
\* absolute exposure it read and the unhedged part are at least min_hedge_size;
\* the size is the unhedged part and the side opposes the exposure.
C16_HedgeSizeIsUnhedgedPart ==
    lastHedge.ordType # "none" =>
        /\ lastHedge.ordType = "market"
        /\ Abs(lastHedge.exposure) >= MinHedgeSize
        /\ UnhedgedPart(lastHedge.exposure, lastHedge.before) >= MinHedgeSize
        /\ lastHedge.size = UnhedgedPart(lastHedge.exposure, lastHedge.before)
        /\ lastHedge.buy = (lastHedge.exposure < 0)

\* C17 (as claimed): on an order-routing or fills channel with retry_limit = N,
\* each of the first N closes or failures reports reached_retry_limit = false
\* and goes on to reconnect; the (N+1)-th reports true and does not reconnect.
C17_FirstNClosesReconnect ==
    [][(kind \in {"router", "fills"} /\ nCloses' = nCloses + 1) =>
           /\ emitted'[Len(emitted')] = (nCloses' > RetryLimit)
           /\ (hpos' = "reconnect") = (nCloses' <= RetryLimit)]_vars

\* C18 (as claimed): a market-data connector reconnects at most retry_limit
\* times: it makes at most retry_limit + 1 connections.
C18_ReconnectionsBounded ==
    kind = "md" => Len(conn) <= RetryLimit + 1

\* C19 (as claimed): a channel has at most one connection that is connecting
\* or open, and every connection is made by the channel's own thread.
C19_OneConnectionOwnThread ==
    /\ Cardinality({c \in 1..Len(conn) : Live(conn[c])}) <= 1
    /\ \A c \in 1..Len(conn) : conn[c].by = "channel"

\* C20 (as claimed): no connection is made after stop() was called.
C20_NoConnectAfterStop ==
    \A c \in 1..Len(conn) : ~conn[c].afterStop


\* a gap of at least a tick and below the tolerable threshold
InBand(g) == g >= TickSize /\ g < TolerableThreshold

\* C23: the status is TolerableGap exactly when the last query succeeded and
\* showed, for the max_mismatch_count-th time in a row or more, the same gap of
\* at least tick_size and below tolerable_threshold; reconcile() then returns
\* the normal interval, and a successful query showing a gap below tick_size
\* leaves NoGap and a mismatch counter of 0.
C23_TolerableGapAfterIdenticalRun ==
    /\ (m_reconStatus = "TolerableGap")
           = (failsInRow = 0 /\ InBand(lastObservedGap) /\ sameGapRun >= MaxMismatchCount)
    /\ (rpc = "returned" /\ m_reconStatus = "TolerableGap")
           => (result[1] /\ result[2] = intervals.normal)
    /\ (failsInRow = 0 /\ lastObservedGap >= 0 /\ lastObservedGap < TickSize)
           => (m_reconStatus = "NoGap" /\ m_mismatchCounter = 0)

\* C23 witness: a TolerableGap was reported to the callback and the loop is
\* back in its wait
C23_Witness ==
    /\ rpc = "wait"
    /\ m_reconStatus = "TolerableGap"
    /\ sameGapRun = MaxMismatchCount
    /\ reconCallbacks # <<>>
    /\ reconCallbacks[Len(reconCallbacks)] = "TolerableGap"

C25_UndeterminedAfterUnresolvedRun ==
    (failsInRow = 0 /\ unresolvedRun >= MaxFailQueryCount) => m_reconStatus = "UndeterminedGap"

\* C26 (as claimed): the status is FailedQuery exactly when the last
\* max_fail_query_count queries or more all failed.
C26_FailedQueryAfterMaxFailures ==
    (m_reconStatus = "FailedQuery") = (failsInRow >= MaxFailQueryCount)

\* C27 (as claimed): no future recon() returned is abandoned or fulfilled
\* twice, and the only future that can be pending is the one m_reconPromise
\* belongs to.
C27_EveryFutureFulfilledOnce ==
    \A i \in 1..Len(futures) :
        /\ futures[i].value # "broken_promise"
        /\ futures[i].sets <= 1
        /\ futures[i].value = "pending" => m_reconPromise = i

\* C28 (as claimed): while a recon() call is waiting for its status, the
\* loop's wait is over, whether or not m_nextReconTime is reached.
C28_ReconWakesLoop ==
    (rpc = "wait" /\ m_running /\ m_reconPromise # 0) => m_nextReconTimeReached


\* the last frame handled reports the cancellation of an order
IsCancelFrame(f) ==
    IF venue = "bybit"
    THEN f.reject = "EC_PerCancelRequest" \/ (f.reject = "EC_NoError" /\ f.status = "Cancelled")
    ELSE f.status = "canceled"

\* the cumulative filled quantity a frame reports, in the unit of the handler
ReportedFilled(f) == IF venue = "okx" THEN f.acc * OkxCtFactor ELSE f.acc

\* C29: a successful cancelOrder on a known order leaves its status and its
\* cumulative filled quantity; the frame that then acknowledges the cancel of
\* the acknowledged (LIVE) order, reporting the filled quantity the venue
\* reported before, leaves the order in the order map, CANCELED, with the
\* cumulative filled quantity it had.
C29_CancelKeepsFilledQuantity ==
    [][/\ (nOps' = nOps + 1 /\ last'.op = "cancelOrder" /\ last'.known /\ last'.sendOk) =>
              LET idx == orderMap[last'.id]
              IN /\ handlers'[idx].status = handlers[idx].status
                 /\ handlers'[idx].cumFilled = handlers[idx].cumFilled
       /\ (/\ nFrames' = nFrames + 1
           /\ last'.op \in {"orderFrame", "channelFrame"}
           /\ last'.known
           /\ IsCancelFrame(frameSeen')
           /\ last.op = "cancelOrder" /\ last.sendOk /\ last.id = last'.id
           /\ handlers[orderMap[last'.id]].status = "LIVE"
           /\ ReportedFilled(frameSeen') = handlers[orderMap[last'.id]].cumFilled) =>
              LET idx == orderMap[last'.id]
              IN /\ last'.id \in DOMAIN orderMap'
                 /\ orderMap'[last'.id] = idx
                 /\ handlers'[idx].status = "CANCELED"
                 /\ handlers'[idx].cumFilled = handlers[idx].cumFilled]_vars

\* C29 witness: an order that was placed, acknowledged and cancelled, after
\* the frame that acknowledged the cancel
C29_Witness ==
    /\ last.op \in {"orderFrame", "channelFrame"}
    /\ last.known
    /\ IsCancelFrame(frameSeen)
    /\ nOps = 2
    /\ nFrames = 2
    /\ last.id \in DOMAIN orderMap
    /\ handlers[orderMap[last.id]].status = "CANCELED"
    /\ handlers[orderMap[last.id]].live
    /\ cancelQueue = <<last.id>>

\* C30 (as claimed): of two successful placeOrder calls that follow each other
\* the second returns the greater client-order-id.
C30_ClientOrderIdsIncrease ==
    [][(/\ nOps' = nOps + 1
        /\ last.op = "placeOrder" /\ last.ret # 0
        /\ last'.op = "placeOrder" /\ last'.ret # 0) => last'.ret > last.ret]_vars


\* the events after which the strategy cannot go on trading
TerminalEvent(e) ==
    \/ e.type = "PositionRecon" /\ e.status \in {"IntolerableGap", "FailedQuery"}
    \/ e.type = "WebSocketDisconnected" /\ e.reached_retry_limit

\* C21 (as claimed): when the event loop handles a terminal event, cancelAll
\* has been attempted on both venues and the shutdown is initiated.
C21_TerminalEventCancelsAndStops ==
    [][(Len(handledEvents') = Len(handledEvents) + 1
            /\ TerminalEvent(handledEvents'[Len(handledEvents')])) =>
           (PositionManagers \subseteq cancelAllCalls' /\ ~running')]_vars

\* C22 (as claimed): trading is started only after is_trading_ready()
\* returned true.
C22_TradingStartsOnlyWhenReady ==
    tradingStarted => readyAtStart

\* C33 (as stated): a successful query that shows a gap of exactly tick_size
\* leaves the status TolerableGap.
C33_TickSizeGapIsTolerableGap ==
    (failsInRow = 0 /\ lastObservedGap = TickSize) => m_reconStatus = "TolerableGap"

\* C33 (amended): a gap of exactly tick_size is never taken for no gap: the
\* query that shows it counts a mismatch (the mismatch counter is at least 1
\* afterwards), the status is TolerableGap exactly when it was the
\* max_mismatch_count-th identical observation in a row and stays NoGap
\* before, and reconcile() returns the normal interval in the first case and
\* the retry-on-mismatch interval in the second.
C33_TickSizeGapCountsAsMismatch ==
    (failsInRow = 0 /\ lastObservedGap = TickSize) =>
        /\ m_mismatchCounter >= 1
        /\ m_reconStatus = (IF sameGapRun >= MaxMismatchCount THEN "TolerableGap" ELSE "NoGap")
        /\ rpc = "returned" =>
               /\ result[1]
               /\ result[2] = (IF sameGapRun >= MaxMismatchCount THEN intervals.normal
                                                                ELSE intervals.mismatch)

\* C33 witness: reconcile() has just returned TolerableGap for a gap of exactly
\* tick_size
C33_Witness ==
    /\ rpc = "returned"
    /\ failsInRow = 0
    /\ lastObservedGap = TickSize
    /\ m_reconStatus = "TolerableGap"

\* C37: a cycle of the reconciliation loop changes m_currentPosition only when
\* its query succeeded and its result is NoGap with a gap below tick_size or a
\* confirmed TolerableGap, whatever the three configured intervals are.
C37_StoreOnlyAfterConfirmedResult ==
    [][(rpc = "returned" /\ rpc' # "returned" /\ m_currentPosition' # m_currentPosition)
          => /\ failsInRow = 0
             /\ \/ m_reconStatus = "NoGap" /\ lastObservedGap < TickSize
                \/ m_reconStatus = "TolerableGap"]_vars

\* C40: neither stop() nor the destructor of a position manager blocks for
\* ever on m_mutex or on the join of the loop thread.
C40_StopAndDestructorReturn == mpos # "blocked"

\* C35: the statuses FILLED, CANCELED and REJECTED are absorbing: no call and
\* no frame changes the status of an order that has one of them.
C35_TerminalStatusAbsorbing ==
    [][\A i \in 1..Len(handlers) :
          handlers[i].status \in {"FILLED", "CANCELED", "REJECTED"}
              => handlers'[i].status = handlers[i].status]_vars

\* C36: an order that can still receive fills is in the order map, so that an
\* execution frame the venue sends for an order placed in this run and still
\* working is never dropped as belonging to an unknown order.
C36_NoFillOfWorkingOrderDropped ==
    [][(last'.op = "executionFrame" /\ nFrames' = nFrames + 1
           /\ last'.id \in atVenue.working)
          => last'.known]_vars


\* the ladder of the side refreshed last, as a set of orders
RefreshedLadder == target_orders_[lastRefresh.side]

\* C31: after a refresh with the touch shift or the postable shift on, each
\* price of the ladder is at least one tick further away than the price
\* before it, any two orders of the side's map are at least a tick apart with
\* the earlier one strictly nearer to mid (measured outwards from mid on the
\* side's axis), and when only the touch shift is on and it moved the first
\* price, the first price is the touch anchor.
C31_LadderOneTickApart ==
    (lastRefresh.done /\ (config_.enable_touch_price \/ config_.enable_postable_price)) =>
        /\ \A i \in 2..NumTargets :
              IF lastRefresh.side = "ask"
              THEN prices_[i] >= prices_[i - 1] + PriceTickSize
              ELSE prices_[i] <= prices_[i - 1] - PriceTickSize
        /\ \A a, b \in RefreshedLadder :
              a.index < b.index =>
                  /\ Abs(a.price - b.price) >= PriceTickSize
                  /\ add_away(lastRefresh.side, 0, a.price - QuoteMid)
                        < add_away(lastRefresh.side, 0, b.price - QuoteMid)
        /\ (lastRefresh.anchored /\ ~config_.enable_postable_price) =>
              prices_[1] = add_away(lastRefresh.side, lastRefresh.market,
                                    TicksFromTouch * PriceTickSize)

\* C31 witness: an ask refresh pushed the first price to the touch anchor and
\* every following price sits exactly one tick beyond the one before it.
C31_Witness ==
    /\ lastRefresh.done
    /\ lastRefresh.side = "ask"
    /\ lastRefresh.anchored
    /\ ~config_.enable_postable_price
    /\ prices_[1] = lastRefresh.market + TicksFromTouch * PriceTickSize
    /\ \A i \in 2..NumTargets : prices_[i] = prices_[i - 1] + PriceTickSize
    /\ Cardinality(RefreshedLadder) = NumTargets

\* C38: after a refresh of a dirty side, the side's map holds one order for
\* each configured (offset, size) pair.
C38_OneOrderPerConfiguredPair ==
    lastRefresh.done =>
        /\ Cardinality(RefreshedLadder) = NumTargets
        /\ \A i \in 1..NumTargets : \E o \in RefreshedLadder : o.index = i /\ o.size = i


\* C32: after any sequence of insert, eraseAt and erase the array is strictly
\* sorted (descending for a bid side, ascending for an ask side), no two
\* stored prices are within epsilon of each other, every stored quantity is
\* strictly positive, and the size is at most MAX_LEVELS.
C32_SortedDistinctPositiveBounded ==
    /\ \A i \in 1..(Len(levels) - 1) :
          IF isDescending THEN levels[i].price > levels[i + 1].price
                          ELSE levels[i].price < levels[i + 1].price
    /\ \A i, j \in 1..Len(levels) : i # j => ~WithinEpsilon(levels[i].price, levels[j].price)
    /\ \A i \in 1..Len(levels) : levels[i].quantity > 0
    /\ Len(levels) <= MaxLevels

\* C32 witness: an insert that found no stored price within epsilon filled
\* the array to MAX_LEVELS with a new level exactly epsilon away from a
\* stored one.
C32_Witness ==
    /\ Len(levels) = MaxLevels
    /\ lastBookOp.op = "insert"
    /\ lastBookOp.size = MaxLevels - 1
    /\ ~lastBookOp.found
    /\ \E i \in 1..Len(levels) : levels[i].price = lastBookOp.price
    /\ \E i \in 1..Len(levels) : Abs(levels[i].price - lastBookOp.price) = PriceEpsilon


\* the bucket holds a token at the time of the next call: one is left, or
\* the time since the last refill is worth at least one
C34_TokenAvailable ==
    \/ tokens_ >= 1
    \/ (callTime' - last_refill_time_) * limiter.max_tokens >= limiter.time_window

\* the next call falls into a cooldown that is running
C34_InCooldown == cooldown_end_time_.has_value /\ callTime' < cooldown_end_time_.at

\* C34: under try_consume at non-decreasing times the tokens stay within
\* 0..max_tokens; a consume succeeds only when a token is available and no
\* cooldown runs, and then takes one token; a consume that finds the bucket
\* empty starts a cooldown of cooldown_duration; during a cooldown every
\* try_consume fails and leaves the end of the cooldown where it is; once
\* the cooldown is over a consume succeeds as soon as a token is available.
C34_TokenBucketAndCooldown ==
    [][/\ callTime' >= callTime
       /\ tokens_ \in 0..limiter.max_tokens
       /\ tokens_' \in 0..limiter.max_tokens
       /\ consumed' =>
             /\ ~C34_InCooldown
             /\ C34_TokenAvailable
             /\ tokens_' < limiter.max_tokens
             /\ UNCHANGED cooldown_end_time_
       /\ C34_InCooldown =>
             /\ ~consumed'
             /\ UNCHANGED <<tokens_, cooldown_end_time_>>
       /\ (~C34_InCooldown /\ ~C34_TokenAvailable) =>
             /\ ~consumed'
             /\ tokens_' = 0
             /\ cooldown_end_time_' =
                   [has_value |-> TRUE, at |-> callTime' + limiter.cooldown_duration]
       /\ (~C34_InCooldown /\ C34_TokenAvailable) => consumed'
      ]_tbVars

\* C34 witness: a consume succeeded after a cooldown of positive length had
\* run out.
C34_Witness ==
    /\ consumed
    /\ limiter.cooldown_duration > 0
    /\ cooldown_end_time_.has_value
    /\ callTime >= cooldown_end_time_.at


\* the frames a connector lets pass before it reports its book ready
C39_WarmupFrames ==
    CASE connector = "binance" -> 2
      [] connector = "okx" -> 1
      [] OTHER -> 0

\* C39: once the market-data channel has closed, of whichever connector, the
\* book is reported ready only while the channel is open and more frames
\* than the warm-up count have arrived on the present connection; while the
\* channel is closed the book is not ready.
C39_NotReadyAfterCloseUntilWarmedUp ==
    (nMdCloses > 0 /\ m_bookWarmedUp) =>
        (mdOpen /\ framesOnConnection > C39_WarmupFrames)

=============================================================================
